---- MODULE Spec2Model ----
(***************************************************************************)
(* Model of the RaptorDbwCAN node (raptor_dbw_can.cpp): the enable / fault *)
(* / override arbitration, the report decoders that feed it, the command   *)
(* encoders that read it, the 200 ms timer and the VIN reassembly.         *)
(*                                                                         *)
(* Every handler is a function from the node's state to the node's state;  *)
(* the record n carries the member variables (enables_, faults_,           *)
(* overrides_, dbwDbc_, vin_, joint_state_) and out, the ordered list of   *)
(* everything the handler did that is visible outside (arbitration calls,  *)
(* published messages, log statements reached).  One action = one handler  *)
(* call.                                                                   *)
(***************************************************************************)
EXTENDS Integers, Sequences, FiniteSets, TLC

VARIABLES enables_, faults_, overrides_, dbwDbc_, vin_, joint_state_, op, out,
          last_pub, tripped, ncmd, vin_rx, nstamped

vars ==
  <<enables_, faults_, overrides_, dbwDbc_, vin_, joint_state_, op, out, last_pub,
    tripped, ncmd, vin_rx, nstamped>>

(***************************************************************************)
(* Bounds of the model.                                                    *)
(***************************************************************************)
\* at most this many fault / override flags are asserted by the vehicle at a time
MaxAsserted == 2
\* at most this many commands are encoded in one run of the encoder specification
MaxCmds == 1
\* at most this many VIN frames are received in one run of the VIN specification
MaxVinFrames == 3
\* at most this many overrides are asserted at a time in the timer specification
MaxOverridden == 1
\* at most this many stamped frames are received in one run of the joint state
\* specification
MaxStamped == 3
\* at most this many brake commands are encoded in one run of the brake
\* specification
MaxBrakeCmds == 2
\* at most this many VIN frames are received in one run of the VIN cycle
\* specification
MaxCycleFrames == 6

(***************************************************************************)
(* Enumerations of raptor_dbw_can.hpp (ListEnables, ListFaults,            *)
(* ListOverrides).                                                         *)
(***************************************************************************)
EN_DBW == 0
EN_DBW_PREV == 1
NUM_ENABLES == 2

FAULT_ACCEL == 0
FAULT_BRAKE == 1
FAULT_STEER == 2
FAULT_WATCH == 3
FAULT_ACTION == 4
FAULT_ARTIC == 5
FAULT_DUMP_BED == 6
FAULT_ENGINE == 7
NUM_SERIOUS_FAULTS == 8
FAULT_WATCH_BRAKES == 8
FAULT_WATCH_WARN == 9
NUM_FAULTS == 10

OVR_ACCEL == 0
OVR_BRAKE == 1
OVR_STEER == 2
OVR_GEAR == 3
OVR_DUMP_BED == 4
OVR_ENGINE == 5
OVR_ARTIC == 6
OVR_ACTION == 7
NUM_OVERRIDES == 8

FAULT_SYSTEM ==
  [i \in 0..(NUM_FAULTS - 1) |->
     CASE i = FAULT_ACCEL -> "Accelerator Pedal"
       [] i = FAULT_BRAKE -> "Brake"
       [] i = FAULT_STEER -> "Steering"
       [] i = FAULT_WATCH -> "Watchdog"
       [] i = FAULT_ACTION -> "Action"
       [] i = FAULT_ARTIC -> "Articulation"
       [] i = FAULT_DUMP_BED -> "Dump Bed"
       [] i = FAULT_ENGINE -> "Engine"
       [] i = FAULT_WATCH_BRAKES -> "Watchdog Braking"
       [] OTHER -> "Watchdog Warning"]

OVR_SYSTEM ==
  [i \in 0..(NUM_OVERRIDES - 1) |->
     CASE i = OVR_ACCEL -> "Accelerator Pedal"
       [] i = OVR_BRAKE -> "Brake"
       [] i = OVR_STEER -> "Steering"
       [] i = OVR_GEAR -> "PRND Gear"
       [] i = OVR_DUMP_BED -> "Dump Bed"
       [] i = OVR_ENGINE -> "Engine"
       [] i = OVR_ARTIC -> "Articulation"
       [] OTHER -> "Action"]

(***************************************************************************)
(* The node as a record, and the entries of out.                           *)
(***************************************************************************)
Node ==
  [enables_ |-> enables_, faults_ |-> faults_, overrides_ |-> overrides_,
   dbwDbc_ |-> dbwDbc_, vin_ |-> vin_, joint_state_ |-> joint_state_, out |-> <<>>]

Emit(n, e) == [n EXCEPT !.out = Append(@, e)]

Log(n, text) == Emit(n, [k |-> "log", text |-> text])

(***************************************************************************)
(* Inline predicates of raptor_dbw_can.hpp.                                *)
(***************************************************************************)
fault(n) == \E i \in FAULT_ACCEL..(NUM_SERIOUS_FAULTS - 1) : n.faults_[i]

override(n) == \E i \in 0..(NUM_OVERRIDES - 1) : n.overrides_[i]

\* variant: the enable flag counts only while no fault and no override is set
enabled_Latched(n) == n.enables_[EN_DBW] /\ ~fault(n) /\ ~override(n)

enabled(n) == n.enables_[EN_DBW]

clear(n) == ~enabled(n)

(***************************************************************************)
(* bool publishDbwEnabled()                                                *)
(***************************************************************************)
\* variant: the message is published on every call, changed or not
publishDbwEnabled_Always(n) ==
  LET en == enabled(n)
  IN  [n |-> [Emit(n, [k |-> "dbw_enabled", data |-> en])
                EXCEPT !.enables_[EN_DBW_PREV] = en],
       change |-> TRUE]

publishDbwEnabled(n) ==
  LET en == enabled(n)
      change == n.enables_[EN_DBW_PREV] # en
      n1 == IF change THEN Emit(n, [k |-> "dbw_enabled", data |-> en]) ELSE n
  IN  [n |-> [n1 EXCEPT !.enables_[EN_DBW_PREV] = en], change |-> change]

(***************************************************************************)
(* void enableSystem()                                                     *)
(***************************************************************************)
RECURSIVE LogFaults(_, _)
LogFaults(n, i) ==
  IF i >= NUM_SERIOUS_FAULTS THEN n
  ELSE LogFaults(
         IF n.faults_[i]
           THEN Log(n, "DBW system disabled - " \o FAULT_SYSTEM[i] \o " fault.")
           ELSE n,
         i + 1)

\* variant: the fault check is missing
enableSystem_IgnoreFault(n) ==
  IF ~n.enables_[EN_DBW]
    THEN LET p == publishDbwEnabled([n EXCEPT !.enables_[EN_DBW] = TRUE])
         IN  IF p.change
               THEN Log(p.n, "DBW system enabled.")
               ELSE Log(p.n, "DBW system failed to enable. Check driver overrides.")
    ELSE n

\* variant: an asserted override rejects the request as a fault does
enableSystem_OverrideBlocks(n) ==
  IF ~n.enables_[EN_DBW]
    THEN IF fault(n) \/ override(n)
           THEN LogFaults(n, FAULT_ACCEL)
           ELSE LET p == publishDbwEnabled([n EXCEPT !.enables_[EN_DBW] = TRUE])
                IN  IF p.change
                      THEN Log(p.n, "DBW system enabled.")
                      ELSE Log(p.n, "DBW system failed to enable. Check driver overrides.")
    ELSE n

enableSystem(n) ==
  IF ~n.enables_[EN_DBW]
    THEN IF fault(n)
           THEN LogFaults(n, FAULT_ACCEL)
           ELSE LET p == publishDbwEnabled([n EXCEPT !.enables_[EN_DBW] = TRUE])
                IN  IF p.change
                      THEN Log(p.n, "DBW system enabled.")
                      ELSE Log(p.n, "DBW system failed to enable. Check driver overrides.")
    ELSE n

(***************************************************************************)
(* void disableSystem()                                                    *)
(***************************************************************************)
\* variant: the disable request clears the flag without publishing it
disableSystem_Unannounced(n) ==
  IF n.enables_[EN_DBW]
    THEN Log([n EXCEPT !.enables_[EN_DBW] = FALSE],
             "DBW system disabled - system disabled.")
    ELSE n

\* variant: the disable request also resets the override flags
disableSystem_ResetOverrides(n) ==
  IF n.enables_[EN_DBW]
    THEN Log(publishDbwEnabled([n EXCEPT !.enables_[EN_DBW] = FALSE,
                                         !.overrides_ = [i \in DOMAIN @ |-> FALSE]]).n,
             "DBW system disabled - system disabled.")
    ELSE n

disableSystem(n) ==
  IF n.enables_[EN_DBW]
    THEN Log(publishDbwEnabled([n EXCEPT !.enables_[EN_DBW] = FALSE]).n,
             "DBW system disabled - system disabled.")
    ELSE n

(***************************************************************************)
(* void setOverride(ListOverrides which_ovr, bool override)                *)
(* The call is recorded in out when it returns, with the value enabled()   *)
(* had on entry and the value it has on return.                            *)
(***************************************************************************)
\* variant: clearing an asserted override switches the system back on
setOverride_AutoClear(n, which_ovr, ovr) ==
  IF which_ovr < NUM_OVERRIDES
    THEN LET en == enabled(n)
             Store(n1) == [n1 EXCEPT !.overrides_[which_ovr] = ovr]
             Changed(p) ==
               IF p.change
                 THEN IF en
                        THEN Log(p.n, "DBW system disabled - " \o OVR_SYSTEM[which_ovr] \o " override")
                        ELSE Log(p.n, "DBW system enabled - no " \o OVR_SYSTEM[which_ovr] \o " override")
                 ELSE p.n
             Called(n3) ==
               Emit(n3, [k |-> "setOverride", id |-> which_ovr, value |-> ovr,
                         en_before |-> en, en_after |-> enabled(n3)])
         IN  Called(Changed(publishDbwEnabled(Store(
               IF ovr /\ en THEN [n EXCEPT !.enables_[EN_DBW] = FALSE]
               ELSE IF ~ovr /\ n.overrides_[which_ovr]
                      THEN [n EXCEPT !.enables_[EN_DBW] = TRUE]
                      ELSE n))))
    ELSE n

setOverride(n, which_ovr, ovr) ==
  IF which_ovr < NUM_OVERRIDES
    THEN LET en == enabled(n)
             Store(n1) == [n1 EXCEPT !.overrides_[which_ovr] = ovr]
             Changed(p) ==
               IF p.change
                 THEN IF en
                        THEN Log(p.n, "DBW system disabled - " \o OVR_SYSTEM[which_ovr] \o " override")
                        ELSE Log(p.n, "DBW system enabled - no " \o OVR_SYSTEM[which_ovr] \o " override")
                 ELSE p.n
             Called(n3) ==
               Emit(n3, [k |-> "setOverride", id |-> which_ovr, value |-> ovr,
                         en_before |-> en, en_after |-> enabled(n3)])
         IN  Called(Changed(publishDbwEnabled(Store(
               IF ovr /\ en THEN [n EXCEPT !.enables_[EN_DBW] = FALSE] ELSE n))))
    ELSE n

(***************************************************************************)
(* void setFault(ListFaults which_fault, bool fault)                       *)
(***************************************************************************)
\* variant: the enable flag is not cleared when the fault is asserted
setFault_NoCutoff(n, which_fault, flt) ==
  IF which_fault < NUM_SERIOUS_FAULTS
    THEN LET en == enabled(n)
             Store(n1) == [n1 EXCEPT !.faults_[which_fault] = flt]
             Changed(p) ==
               IF p.change
                 THEN IF en
                        THEN Log(p.n, "DBW system disabled - " \o FAULT_SYSTEM[which_fault] \o " fault.")
                        ELSE Log(p.n, "DBW system enabled - no " \o FAULT_SYSTEM[which_fault] \o " fault.")
                 ELSE p.n
             Called(n3) ==
               Emit(n3, [k |-> "setFault", id |-> which_fault, value |-> flt,
                         en_before |-> en, en_after |-> enabled(n3)])
         IN  Called(Changed(publishDbwEnabled(Store(
               n))))
    ELSE n

\* variant: clearing an asserted fault switches the system back on
setFault_AutoRecover(n, which_fault, flt) ==
  IF which_fault < NUM_SERIOUS_FAULTS
    THEN LET en == enabled(n)
             Store(n1) == [n1 EXCEPT !.faults_[which_fault] = flt]
             Changed(p) ==
               IF p.change
                 THEN IF en
                        THEN Log(p.n, "DBW system disabled - " \o FAULT_SYSTEM[which_fault] \o " fault.")
                        ELSE Log(p.n, "DBW system enabled - no " \o FAULT_SYSTEM[which_fault] \o " fault.")
                 ELSE p.n
             Called(n3) ==
               Emit(n3, [k |-> "setFault", id |-> which_fault, value |-> flt,
                         en_before |-> en, en_after |-> enabled(n3)])
         IN  Called(Changed(publishDbwEnabled(Store(
               IF flt /\ en THEN [n EXCEPT !.enables_[EN_DBW] = FALSE]
               ELSE IF ~flt /\ n.faults_[which_fault]
                      THEN [n EXCEPT !.enables_[EN_DBW] = TRUE]
                      ELSE n))))
    ELSE n

\* variant: the watchdog braking and warning flags are accepted as well
setFault_AnyFault(n, which_fault, flt) ==
  IF which_fault < NUM_FAULTS
    THEN LET en == enabled(n)
             Store(n1) == [n1 EXCEPT !.faults_[which_fault] = flt]
             Changed(p) ==
               IF p.change
                 THEN IF en
                        THEN Log(p.n, "DBW system disabled - " \o FAULT_SYSTEM[which_fault] \o " fault.")
                        ELSE Log(p.n, "DBW system enabled - no " \o FAULT_SYSTEM[which_fault] \o " fault.")
                 ELSE p.n
             Called(n3) ==
               Emit(n3, [k |-> "setFault", id |-> which_fault, value |-> flt,
                         en_before |-> en, en_after |-> enabled(n3)])
         IN  Called(Changed(publishDbwEnabled(Store(
               IF flt /\ en THEN [n EXCEPT !.enables_[EN_DBW] = FALSE] ELSE n))))
    ELSE n

setFault(n, which_fault, flt) ==
  IF which_fault < NUM_SERIOUS_FAULTS
    THEN LET en == enabled(n)
             Store(n1) == [n1 EXCEPT !.faults_[which_fault] = flt]
             Changed(p) ==
               IF p.change
                 THEN IF en
                        THEN Log(p.n, "DBW system disabled - " \o FAULT_SYSTEM[which_fault] \o " fault.")
                        ELSE Log(p.n, "DBW system enabled - no " \o FAULT_SYSTEM[which_fault] \o " fault.")
                 ELSE p.n
             Called(n3) ==
               Emit(n3, [k |-> "setFault", id |-> which_fault, value |-> flt,
                         en_before |-> en, en_after |-> enabled(n3)])
         IN  Called(Changed(publishDbwEnabled(Store(
               IF flt /\ en THEN [n EXCEPT !.enables_[EN_DBW] = FALSE] ELSE n))))
    ELSE n

\* faultWatchdog with the braking error logged on the level of braking
faultWatchdog3_Level(n, flt, src, braking) ==
  LET Braking(n1) ==
        IF braking
          THEN Log(n1, "Watchdog - new braking fault.")
          ELSE IF n1.faults_[FAULT_WATCH_BRAKES]
                 THEN Log(n1, "Watchdog - braking fault is cleared.")
                 ELSE n1
      Warning(n2) ==
        IF flt /\ src # 0 /\ ~n2.faults_[FAULT_WATCH_WARN]
          THEN [Log(n2, "Watchdog - new fault warning.")
                  EXCEPT !.faults_[FAULT_WATCH_WARN] = TRUE]
          ELSE IF ~flt
                 THEN [n2 EXCEPT !.faults_[FAULT_WATCH_WARN] = FALSE]
                 ELSE n2
      Store(n3) == [n3 EXCEPT !.faults_[FAULT_WATCH_BRAKES] = braking]
      NonBraking(n4) ==
        IF flt /\ ~n4.faults_[FAULT_WATCH_BRAKES] /\ n4.faults_[FAULT_WATCH_WARN]
          THEN Log(n4, "Watchdog - new non-braking fault.")
          ELSE n4
  IN  NonBraking(Store(Warning(Braking(setFault(n, FAULT_WATCH, flt)))))

\* faultWatchdog with the warning raised whatever the source is
faultWatchdog3_AnySource(n, flt, src, braking) ==
  LET Braking(n1) ==
        IF braking /\ ~n1.faults_[FAULT_WATCH_BRAKES]
          THEN Log(n1, "Watchdog - new braking fault.")
          ELSE IF ~braking /\ n1.faults_[FAULT_WATCH_BRAKES]
                 THEN Log(n1, "Watchdog - braking fault is cleared.")
                 ELSE n1
      Warning(n2) ==
        IF flt /\ ~n2.faults_[FAULT_WATCH_WARN]
          THEN [Log(n2, "Watchdog - new fault warning.")
                  EXCEPT !.faults_[FAULT_WATCH_WARN] = TRUE]
          ELSE IF ~flt
                 THEN [n2 EXCEPT !.faults_[FAULT_WATCH_WARN] = FALSE]
                 ELSE n2
      Store(n3) == [n3 EXCEPT !.faults_[FAULT_WATCH_BRAKES] = braking]
      NonBraking(n4) ==
        IF flt /\ ~n4.faults_[FAULT_WATCH_BRAKES] /\ n4.faults_[FAULT_WATCH_WARN]
          THEN Log(n4, "Watchdog - new non-braking fault.")
          ELSE n4
  IN  NonBraking(Store(Warning(Braking(setFault(n, FAULT_WATCH, flt)))))

(***************************************************************************)
(* void faultWatchdog(bool fault, uint8_t src, bool braking)               *)
(* void faultWatchdog(bool fault, uint8_t src)                             *)
(***************************************************************************)
\* variant: a call without a fault leaves the warning flag as it is
faultWatchdog3_WarningKept(n, flt, src, braking) ==
  LET Braking(n1) ==
        IF braking /\ ~n1.faults_[FAULT_WATCH_BRAKES]
          THEN Log(n1, "Watchdog - new braking fault.")
          ELSE IF ~braking /\ n1.faults_[FAULT_WATCH_BRAKES]
                 THEN Log(n1, "Watchdog - braking fault is cleared.")
                 ELSE n1
      Warning(n2) ==
        IF flt /\ src # 0 /\ ~n2.faults_[FAULT_WATCH_WARN]
          THEN [Log(n2, "Watchdog - new fault warning.")
                  EXCEPT !.faults_[FAULT_WATCH_WARN] = TRUE]
          ELSE n2
      Store(n3) == [n3 EXCEPT !.faults_[FAULT_WATCH_BRAKES] = braking]
      NonBraking(n4) ==
        IF flt /\ ~n4.faults_[FAULT_WATCH_BRAKES] /\ n4.faults_[FAULT_WATCH_WARN]
          THEN Log(n4, "Watchdog - new non-braking fault.")
          ELSE n4
  IN  NonBraking(Store(Warning(Braking(setFault(n, FAULT_WATCH, flt)))))

faultWatchdog3(n, flt, src, braking) ==
  LET Braking(n1) ==
        IF braking /\ ~n1.faults_[FAULT_WATCH_BRAKES]
          THEN Log(n1, "Watchdog - new braking fault.")
          ELSE IF ~braking /\ n1.faults_[FAULT_WATCH_BRAKES]
                 THEN Log(n1, "Watchdog - braking fault is cleared.")
                 ELSE n1
      Warning(n2) ==
        IF flt /\ src # 0 /\ ~n2.faults_[FAULT_WATCH_WARN]
          THEN [Log(n2, "Watchdog - new fault warning.")
                  EXCEPT !.faults_[FAULT_WATCH_WARN] = TRUE]
          ELSE IF ~flt
                 THEN [n2 EXCEPT !.faults_[FAULT_WATCH_WARN] = FALSE]
                 ELSE n2
      Store(n3) == [n3 EXCEPT !.faults_[FAULT_WATCH_BRAKES] = braking]
      NonBraking(n4) ==
        IF flt /\ ~n4.faults_[FAULT_WATCH_BRAKES] /\ n4.faults_[FAULT_WATCH_WARN]
          THEN Log(n4, "Watchdog - new non-braking fault.")
          ELSE n4
  IN  NonBraking(Store(Warning(Braking(setFault(n, FAULT_WATCH, flt)))))

\* variant: the two-argument form reports a braking fault whenever the
\* caller names a source
faultWatchdog_BrakingSource(n, flt, src) == faultWatchdog3(n, flt, src, src # 0)

\* variant: the watchdog fault, once raised, is kept by later calls
faultWatchdog_Sticky(n, flt, src) ==
  faultWatchdog3(n, flt \/ n.faults_[FAULT_WATCH], src, n.faults_[FAULT_WATCH_BRAKES])

\* variant: the two-argument form passes braking = false
faultWatchdog_NotBraking(n, flt, src) == faultWatchdog3(n, flt, src, FALSE)

faultWatchdog(n, flt, src) == faultWatchdog3(n, flt, src, n.faults_[FAULT_WATCH_BRAKES])

(***************************************************************************)
(* Inbound CAN frames.  A frame carries its id, its declared length, the   *)
(* remote / error flags and the decoded values of the signals the decoder  *)
(* of that id reads for arbitration and for the report's fault fields.     *)
(***************************************************************************)
ID_BRAKE_REPORT == "ID_BRAKE_REPORT"
ID_ACCEL_PEDAL_REPORT == "ID_ACCEL_PEDAL_REPORT"
ID_STEERING_REPORT == "ID_STEERING_REPORT"
ID_GEAR_REPORT == "ID_GEAR_REPORT"
ID_ACTION_REPORT == "ID_ACTION_REPORT"
ID_ARTICULATION_REPORT == "ID_ARTICULATION_REPORT"
ID_DUMP_BED_REPORT == "ID_DUMP_BED_REPORT"
ID_ENGINE_REPORT == "ID_ENGINE_REPORT"

\* NewEagle::DbcMessage::GetDlc(): the length the message definition declares
GetDlc(id) == 8

Bit == {0, 1}
\* values of a fault-status signal: none, and two fault codes
FaultStatus == {0, 1, 2}
Signals(id) ==
  CASE id = ID_BRAKE_REPORT ->
         [DBW_BrakeFault : Bit, DBW_BrakeDriverActivity : Bit]
    [] id = ID_ACCEL_PEDAL_REPORT ->
         [DBW_AccelPdlFault_Ch1 : Bit, DBW_AccelPdlFault_Ch2 : Bit,
          DBW_AccelPdlFault : Bit, DBW_AccelPdlDriverActivity : Bit]
    [] id = ID_STEERING_REPORT ->
         [DBW_SteeringFault : Bit, DBW_SteeringDriverActivity : Bit,
          DBW_SteeringWhlAngleAct : {0}]
    [] id = ID_GEAR_REPORT ->
         [DBW_PrndDriverActivity : Bit, DBW_PrndFault : Bit]
    [] id = ID_ACTION_REPORT ->
         [DBW_ActionFault : FaultStatus]
    [] id = ID_ARTICULATION_REPORT ->
         [DBW_ArticulationFault : FaultStatus, DBW_ArticulationDriverActivity : Bit]
    [] id = ID_DUMP_BED_REPORT ->
         [DBW_DumpBedFault : FaultStatus, DBW_DumpBedDriverActivity : Bit]
    [] id = ID_ENGINE_REPORT ->
         [DBW_EngineFault : FaultStatus, DBW_EngineDriverActivity : Bit]

ReportIds ==
  {ID_BRAKE_REPORT, ID_ACCEL_PEDAL_REPORT, ID_STEERING_REPORT, ID_GEAR_REPORT,
   ID_ACTION_REPORT, ID_ARTICULATION_REPORT, ID_DUMP_BED_REPORT, ID_ENGINE_REPORT}

\* a well-formed full-length data frame, and the frames that are short,
\* remote or error frames
GoodShape == [dlc |-> 8, is_rtr |-> FALSE, is_error |-> FALSE]

BadShapes ==
  {[dlc |-> 0, is_rtr |-> FALSE, is_error |-> FALSE],
   [dlc |-> 1, is_rtr |-> FALSE, is_error |-> FALSE],
   [dlc |-> 8, is_rtr |-> TRUE, is_error |-> FALSE],
   [dlc |-> 8, is_rtr |-> FALSE, is_error |-> TRUE]}

\* the signals that carry a measurement
Measurements ==
  {"DBW_SteeringWhlAngleAct", "DBW_WhlSpd_FL", "DBW_WhlSpd_FR", "DBW_WhlSpd_RL",
   "DBW_WhlSpd_RR"}

\* signal values whose flags are all clear or all set
Uniform(sig) ==
  \A x, y \in DOMAIN sig \ Measurements : (sig[x] = 0) = (sig[y] = 0)

\* builtin_interfaces::msg::Time: sec, and nanosec counted in tenths of a
\* second (10^8 ns)
ZeroStamp == [sec |-> 0, nanosec |-> 0]

\* a frame; header.stamp is zero unless the frame is stamped
Frame(id, shape, sig) ==
  [id |-> id, dlc |-> shape.dlc, is_rtr |-> shape.is_rtr, is_error |-> shape.is_error,
   stamp |-> ZeroStamp, sig |-> sig]

\* the frames delivered to recvCAN: every signal valuation in a well-formed
\* frame, the uniform valuations in the others
Frames ==
  [id \in ReportIds |->
     {Frame(id, GoodShape, sig) : sig \in Signals(id)}
     \cup {Frame(id, shape, sig) : shape \in BadShapes,
                                   sig \in {x \in Signals(id) : Uniform(x)}}]

(***************************************************************************)
(* The joint state record and publishJointStates.  Time is counted in      *)
(* tenths of a second, velocity in hundredths of a radian per second and   *)
(* position in thousandths of a radian, so that position = time * velocity.*)
(***************************************************************************)
JOINT_FL == 0
JOINT_FR == 1
JOINT_RL == 2
JOINT_RR == 3
JOINT_SL == 4
JOINT_SR == 5
JOINT_COUNT == 6

\* 2 * M_PI in thousandths of a radian
TWO_PI == 6283

\* the 0.5 s of the staleness test, in tenths of a second
HALF_SECOND == 5

\* rclcpp::Time::seconds(): the whole stamp, in tenths of a second
Seconds(stamp) == 10 * stamp.sec + stamp.nanosec

\* fmod: the remainder has the sign of x
Fmod(x, y) == IF x >= 0 THEN x % y ELSE -((-x) % y)

\* atan(L / (r - W / 2)) and atan(L / (r + W / 2)) with
\* r = L / tan(steering_wheel_angle / steering_ratio_), for the constructor's
\* acker_wheelbase_ = 2.8498, acker_track_ = 1.5824, steering_ratio_ = 14.8,
\* rounded to thousandths of a radian, for the angles the model delivers
AckermannLeft(steering_wheel_angle) ==
  CASE steering_wheel_angle = 0 -> 0
    [] steering_wheel_angle = 1 -> 69
    [] steering_wheel_angle = 2 -> 140

AckermannRight(steering_wheel_angle) ==
  CASE steering_wheel_angle = 0 -> 0
    [] steering_wheel_angle = 1 -> 66
    [] steering_wheel_angle = 2 -> 130

\* dt = stamp.seconds() - joint_state_.header.stamp.sec
JointDt(n, stamp) == Seconds(stamp) - 10 * n.joint_state_.stamp.sec

\* the staleness test and the integration of the four wheel positions
Integrate(js, dt) ==
  IF dt < HALF_SECOND
    THEN [js EXCEPT !.position =
            [i \in DOMAIN js.position |->
               IF i \in JOINT_FL..JOINT_RR
                 THEN Fmod(js.position[i] + dt * js.velocity[i], TWO_PI)
                 ELSE js.position[i]]]
    ELSE js

PublishJointState(n) == Emit(n, [k |-> "joint_states", data |-> n.joint_state_])

\* publishJointStates(stamp, WheelSpeedReport)
publishJointStatesWheels(n, stamp, wheels) ==
  LET Store(js) ==
        [js EXCEPT !.velocity[JOINT_FL] = wheels.front_left,
                   !.velocity[JOINT_FR] = wheels.front_right,
                   !.velocity[JOINT_RL] = wheels.rear_left,
                   !.velocity[JOINT_RR] = wheels.rear_right]
      Stamp(js) == [js EXCEPT !.stamp = stamp]
  IN  PublishJointState(
        [n EXCEPT !.joint_state_ = Stamp(Integrate(Store(@), JointDt(n, stamp)))])

\* publishJointStates(stamp, SteeringReport)
publishJointStatesSteering(n, stamp, steering) ==
  LET Store(js) ==
        [js EXCEPT !.position[JOINT_SL] = AckermannLeft(steering.steering_wheel_angle),
                   !.position[JOINT_SR] = AckermannRight(steering.steering_wheel_angle)]
      Stamp(js) == [js EXCEPT !.stamp = stamp]
  IN  PublishJointState(
        [n EXCEPT !.joint_state_ = Stamp(Integrate(Store(@), JointDt(n, stamp)))])

\* the C++ conversion of a signal value to bool
ToBool(x) == x # 0

(***************************************************************************)
(* Report decoders.                                                        *)
(***************************************************************************)
\* variant: the report is published before the frame is arbitrated
recvBrakeRpt_PublishFirst(n, msg) ==
  IF msg.dlc >= GetDlc(ID_BRAKE_REPORT)
    THEN LET brakeSystemFault == ToBool(msg.sig.DBW_BrakeFault)
             dbwSystemFault == brakeSystemFault
             driverActivity == ToBool(msg.sig.DBW_BrakeDriverActivity)
             Publish(n3) ==
               Emit(n3, [k |-> "report", topic |-> "brake_report",
                         fault |-> brakeSystemFault,
                         driver_activity |-> driverActivity])
             Warn(n4) ==
               IF brakeSystemFault
                 THEN Log(n4, "Brake report received a system fault.")
                 ELSE n4
         IN  Warn(setOverride(
               faultWatchdog(setFault(Publish(n), FAULT_BRAKE, brakeSystemFault),
                             dbwSystemFault, IF brakeSystemFault THEN 1 ELSE 0),
               OVR_BRAKE, driverActivity))
    ELSE n

recvBrakeRpt(n, msg) ==
  IF msg.dlc >= GetDlc(ID_BRAKE_REPORT)
    THEN LET brakeSystemFault == ToBool(msg.sig.DBW_BrakeFault)
             dbwSystemFault == brakeSystemFault
             driverActivity == ToBool(msg.sig.DBW_BrakeDriverActivity)
             Publish(n3) ==
               Emit(n3, [k |-> "report", topic |-> "brake_report",
                         fault |-> brakeSystemFault,
                         driver_activity |-> driverActivity])
             Warn(n4) ==
               IF brakeSystemFault
                 THEN Log(n4, "Brake report received a system fault.")
                 ELSE n4
         IN  Warn(Publish(
               setOverride(
                 faultWatchdog(setFault(n, FAULT_BRAKE, brakeSystemFault),
                               dbwSystemFault, IF brakeSystemFault THEN 1 ELSE 0),
                 OVR_BRAKE, driverActivity)))
    ELSE n

\* variant: either channel fault alone trips the accelerator fault
recvAccelPedalRpt_Or(n, msg) ==
  IF msg.dlc >= GetDlc(ID_ACCEL_PEDAL_REPORT)
    THEN LET faultCh1 == ToBool(msg.sig.DBW_AccelPdlFault_Ch1)
             faultCh2 == ToBool(msg.sig.DBW_AccelPdlFault_Ch2)
             accelPdlSystemFault == ToBool(msg.sig.DBW_AccelPdlFault)
             dbwSystemFault == accelPdlSystemFault
             Publish(n3) ==
               Emit(n3, [k |-> "report", topic |-> "accelerator_pedal_report",
                         fault |-> accelPdlSystemFault,
                         fault_ch1 |-> faultCh1, fault_ch2 |-> faultCh2,
                         driver_activity |-> ToBool(msg.sig.DBW_AccelPdlDriverActivity)])
             Warn(n4) ==
               IF faultCh1 \/ faultCh2
                 THEN Log(n4, "Acclerator pedal report received a system fault.")
                 ELSE n4
         IN  Warn(Publish(
               setOverride(
                 faultWatchdog(setFault(n, FAULT_ACCEL, faultCh1 \/ faultCh2),
                               dbwSystemFault, IF accelPdlSystemFault THEN 1 ELSE 0),
                 OVR_ACCEL, ToBool(msg.sig.DBW_AccelPdlDriverActivity))))
    ELSE n

recvAccelPedalRpt(n, msg) ==
  IF msg.dlc >= GetDlc(ID_ACCEL_PEDAL_REPORT)
    THEN LET faultCh1 == ToBool(msg.sig.DBW_AccelPdlFault_Ch1)
             faultCh2 == ToBool(msg.sig.DBW_AccelPdlFault_Ch2)
             accelPdlSystemFault == ToBool(msg.sig.DBW_AccelPdlFault)
             dbwSystemFault == accelPdlSystemFault
             Publish(n3) ==
               Emit(n3, [k |-> "report", topic |-> "accelerator_pedal_report",
                         fault |-> accelPdlSystemFault,
                         fault_ch1 |-> faultCh1, fault_ch2 |-> faultCh2,
                         driver_activity |-> ToBool(msg.sig.DBW_AccelPdlDriverActivity)])
             Warn(n4) ==
               IF faultCh1 \/ faultCh2
                 THEN Log(n4, "Acclerator pedal report received a system fault.")
                 ELSE n4
         IN  Warn(Publish(
               setOverride(
                 faultWatchdog(setFault(n, FAULT_ACCEL, faultCh1 /\ faultCh2),
                               dbwSystemFault, IF accelPdlSystemFault THEN 1 ELSE 0),
                 OVR_ACCEL, ToBool(msg.sig.DBW_AccelPdlDriverActivity))))
    ELSE n

\* faultWatchdog(dbwSystemFault) is called with one argument: src takes the
\* default of the declaration in raptor_dbw_can.hpp
FAULT_WATCHDOG_DEFAULT_SRC == 0

recvSteeringRpt(n, msg) ==
  IF msg.dlc >= GetDlc(ID_STEERING_REPORT)
    THEN LET steeringSystemFault == ToBool(msg.sig.DBW_SteeringFault)
             dbwSystemFault == steeringSystemFault
             driverActivity == ToBool(msg.sig.DBW_SteeringDriverActivity)
             Publish(n3) ==
               Emit(n3, [k |-> "report", topic |-> "steering_report",
                         fault |-> steeringSystemFault,
                         driver_activity |-> driverActivity])
             Warn(n4) ==
               IF steeringSystemFault
                 THEN Log(n4, "Steering report received a system fault.")
                 ELSE n4
             Joints(n5) ==
               publishJointStatesSteering(
                 n5, msg.stamp,
                 [steering_wheel_angle |-> msg.sig.DBW_SteeringWhlAngleAct])
         IN  Warn(Joints(Publish(
               setOverride(
                 faultWatchdog(setFault(n, FAULT_STEER, steeringSystemFault),
                               dbwSystemFault, FAULT_WATCHDOG_DEFAULT_SRC),
                 OVR_STEER, driverActivity))))
    ELSE n

recvGearRpt(n, msg) ==
  IF msg.dlc >= 1
    THEN LET driverActivity == ToBool(msg.sig.DBW_PrndDriverActivity)
             n1 == setOverride(n, OVR_GEAR, driverActivity)
         IN  Emit(n1, [k |-> "report", topic |-> "gear_report",
                       fault |-> ToBool(msg.sig.DBW_PrndFault),
                       driver_activity |-> driverActivity])
    ELSE n

recvActionRpt(n, msg) ==
  IF msg.dlc >= GetDlc(ID_ACTION_REPORT)
    THEN LET status == msg.sig.DBW_ActionFault
             n1 == setFault(n, FAULT_ACTION, status > 0)
         IN  Emit(n1, [k |-> "report", topic |-> "action_report",
                       fault |-> status > 0, driver_activity |-> FALSE])
    ELSE n

recvArticulationRpt(n, msg) ==
  IF msg.dlc >= GetDlc(ID_ARTICULATION_REPORT)
    THEN LET status == msg.sig.DBW_ArticulationFault
             driver_activity == ToBool(msg.sig.DBW_ArticulationDriverActivity)
             n1 == setFault(n, FAULT_ARTIC, status > 0)
         IN  Emit(n1, [k |-> "report", topic |-> "articulation_report",
                       fault |-> status > 0, driver_activity |-> driver_activity])
    ELSE n

recvDumpBedRpt(n, msg) ==
  IF msg.dlc >= GetDlc(ID_DUMP_BED_REPORT)
    THEN LET status == msg.sig.DBW_DumpBedFault
             driver_activity == ToBool(msg.sig.DBW_DumpBedDriverActivity)
             n1 == setFault(n, FAULT_DUMP_BED, status > 0)
             n2 == setOverride(n1, OVR_DUMP_BED, driver_activity)
         IN  Emit(n2, [k |-> "report", topic |-> "dump_bed_report",
                       fault |-> status > 0, driver_activity |-> driver_activity])
    ELSE n

recvEngineRpt(n, msg) ==
  IF msg.dlc >= GetDlc(ID_ENGINE_REPORT)
    THEN LET status == msg.sig.DBW_EngineFault
             driver_activity == ToBool(msg.sig.DBW_EngineDriverActivity)
             n1 == setFault(n, FAULT_ENGINE, status > 0)
             n2 == setOverride(n1, OVR_ENGINE, driver_activity)
         IN  Emit(n2, [k |-> "report", topic |-> "engine_report",
                       fault |-> status > 0, driver_activity |-> driver_activity])
    ELSE n

(***************************************************************************)
(* void recvVinRpt(const Frame::SharedPtr msg)                             *)
(* vin_ is the std::string the digits are pushed onto, as the sequence of  *)
(* its character codes.                                                    *)
(***************************************************************************)
ID_VIN == "ID_VIN"
VIN_MUX_VIN0 == 0
VIN_MUX_VIN1 == 1
VIN_MUX_VIN2 == 2

\* the digit signals read for each value of the multiplexor
VinDigits ==
  [i \in {VIN_MUX_VIN0, VIN_MUX_VIN1, VIN_MUX_VIN2} |->
     CASE i = VIN_MUX_VIN0 ->
            <<"DBW_VinDigit_01", "DBW_VinDigit_02", "DBW_VinDigit_03", "DBW_VinDigit_04",
              "DBW_VinDigit_05", "DBW_VinDigit_06", "DBW_VinDigit_07">>
       [] i = VIN_MUX_VIN1 ->
            <<"DBW_VinDigit_08", "DBW_VinDigit_09", "DBW_VinDigit_10", "DBW_VinDigit_11",
              "DBW_VinDigit_12", "DBW_VinDigit_13", "DBW_VinDigit_14">>
       [] i = VIN_MUX_VIN2 ->
            <<"DBW_VinDigit_15", "DBW_VinDigit_16", "DBW_VinDigit_17">>]

\* the conversion of a signal value to the char push_back() receives
ToChar(x) == x % 256

\* variant: the buffer is published after every phase
recvVinRpt_EveryPhase(n, msg) ==
  IF msg.dlc >= GetDlc(ID_VIN) /\ msg.sig.DBW_VinMultiplexor \in DOMAIN VinDigits
    THEN LET PushBack(names) ==
               [n EXCEPT !.vin_ = @ \o [i \in 1..Len(names) |-> ToChar(msg.sig[names[i]])]]
             Publish(n1) == Emit(n1, [k |-> "vin", data |-> n1.vin_])
         IN  Publish(PushBack(VinDigits[msg.sig.DBW_VinMultiplexor]))
    ELSE n

\* variant: the buffer is emptied once it has been published
recvVinRpt_ClearPublished(n, msg) ==
  IF msg.dlc >= GetDlc(ID_VIN)
    THEN LET mux == msg.sig.DBW_VinMultiplexor
             PushBack(names) ==
               [n EXCEPT !.vin_ = @ \o [i \in 1..Len(names) |-> ToChar(msg.sig[names[i]])]]
             Publish(n1) == [Emit(n1, [k |-> "vin", data |-> n1.vin_]) EXCEPT !.vin_ = <<>>]
         IN  IF mux = VIN_MUX_VIN0 THEN PushBack(VinDigits[VIN_MUX_VIN0])
             ELSE IF mux = VIN_MUX_VIN1 THEN PushBack(VinDigits[VIN_MUX_VIN1])
             ELSE IF mux = VIN_MUX_VIN2 THEN Publish(PushBack(VinDigits[VIN_MUX_VIN2]))
             ELSE n
    ELSE n

recvVinRpt(n, msg) ==
  IF msg.dlc >= GetDlc(ID_VIN)
    THEN LET mux == msg.sig.DBW_VinMultiplexor
             PushBack(names) ==
               [n EXCEPT !.vin_ = @ \o [i \in 1..Len(names) |-> ToChar(msg.sig[names[i]])]]
             Publish(n1) == Emit(n1, [k |-> "vin", data |-> n1.vin_])
         IN  IF mux = VIN_MUX_VIN0 THEN PushBack(VinDigits[VIN_MUX_VIN0])
             ELSE IF mux = VIN_MUX_VIN1 THEN PushBack(VinDigits[VIN_MUX_VIN1])
             ELSE IF mux = VIN_MUX_VIN2 THEN Publish(PushBack(VinDigits[VIN_MUX_VIN2]))
             ELSE n
    ELSE n

ID_REPORT_WHEEL_SPEED == "ID_REPORT_WHEEL_SPEED"

recvWheelSpeedRpt(n, msg) ==
  IF msg.dlc >= GetDlc(ID_REPORT_WHEEL_SPEED)
    THEN LET report == [front_left |-> msg.sig.DBW_WhlSpd_FL,
                        front_right |-> msg.sig.DBW_WhlSpd_FR,
                        rear_left |-> msg.sig.DBW_WhlSpd_RL,
                        rear_right |-> msg.sig.DBW_WhlSpd_RR]
             Publish(n1) ==
               Emit(n1, [k |-> "wheel_speed_report", stamp |-> msg.stamp,
                         data |-> report])
         IN  publishJointStatesWheels(Publish(n), msg.stamp, report)
    ELSE n

(***************************************************************************)
(* The report decoders that take no part in the arbitration:               *)
(* recvWheelPositionRpt, recvTirePressureRpt, recvSurroundRpt, recvImuRpt, *)
(* recvDriverInputRpt, recvMiscRpt, recvLowVoltageSystemRpt,               *)
(* recvBrake2Rpt, recvSteering2Rpt, recvFaultActionRpt,                    *)
(* recvOtherActuatorsRpt, recvGpsReferenceRpt, recvGpsRemainderRpt.  Each  *)
(* checks the length of the frame, decodes its signals into a report and   *)
(* publishes the report.                                                   *)
(***************************************************************************)
OtherReportIds ==
  {"ID_REPORT_WHEEL_POSITION", "ID_REPORT_TIRE_PRESSURE", "ID_REPORT_SURROUND",
   "ID_REPORT_IMU", "ID_REPORT_DRIVER_INPUT", "ID_MISC_REPORT",
   "ID_LOW_VOLTAGE_SYSTEM_REPORT", "ID_BRAKE_2_REPORT", "ID_STEERING_2_REPORT",
   "ID_FAULT_ACTION_REPORT", "ID_OTHER_ACTUATORS_REPORT", "ID_GPS_REFERENCE_REPORT",
   "ID_GPS_REMAINDER_REPORT"}

\* variant: the driver input report switches the system on
recvOtherRpt_DriverEnables(n, msg) ==
  IF msg.dlc >= GetDlc(msg.id)
    THEN Emit(IF msg.id = "ID_REPORT_DRIVER_INPUT" THEN enableSystem(n) ELSE n,
              [k |-> "publish", id |-> msg.id])
    ELSE n

recvOtherRpt(n, msg) ==
  IF msg.dlc >= GetDlc(msg.id)
    THEN Emit(n, [k |-> "publish", id |-> msg.id])
    ELSE n

(***************************************************************************)
(* void recvCAN(const Frame::SharedPtr msg)                                *)
(***************************************************************************)
\* variant: the remote and error flags are not looked at
recvCAN_AnyFrame(n, msg) ==
  CASE msg.id = ID_BRAKE_REPORT -> recvBrakeRpt(n, msg)
    [] msg.id = ID_GEAR_REPORT -> recvGearRpt(n, msg)
    [] msg.id = ID_VIN -> recvVinRpt(n, msg)
    [] OTHER -> n

recvCAN(n, msg) ==
  IF ~msg.is_rtr /\ ~msg.is_error
    THEN CASE msg.id = ID_BRAKE_REPORT -> recvBrakeRpt(n, msg)
           [] msg.id = ID_ACCEL_PEDAL_REPORT -> recvAccelPedalRpt(n, msg)
           [] msg.id = ID_STEERING_REPORT -> recvSteeringRpt(n, msg)
           [] msg.id = ID_GEAR_REPORT -> recvGearRpt(n, msg)
           [] msg.id = ID_REPORT_WHEEL_SPEED -> recvWheelSpeedRpt(n, msg)
           [] msg.id = ID_VIN -> recvVinRpt(n, msg)
           [] msg.id = ID_ACTION_REPORT -> recvActionRpt(n, msg)
           [] msg.id = ID_ARTICULATION_REPORT -> recvArticulationRpt(n, msg)
           [] msg.id = ID_DUMP_BED_REPORT -> recvDumpBedRpt(n, msg)
           [] msg.id = ID_ENGINE_REPORT -> recvEngineRpt(n, msg)
           [] msg.id \in OtherReportIds -> recvOtherRpt(n, msg)
           [] OTHER -> n
    ELSE n

(***************************************************************************)
(* Outbound command messages.  dbwDbc_ maps a message name to the current  *)
(* value of each of its signals; the message objects live as long as the   *)
(* node, so a signal keeps its value until it is set again.  GetFrame()    *)
(* packs every signal of the message.                                      *)
(***************************************************************************)
MsgSignals ==
  [AKit_BrakeRequest |->
     {"AKit_BrakePedalReq", "AKit_BrakeCtrlEnblReq", "AKit_BrakeCtrlReqType",
      "AKit_BrakePcntTorqueReq", "AKit_SpeedModeDecelLim", "AKit_SpeedModeNegJerkLim",
      "AKit_ParkingBrkReq", "AKit_BrakeRollingCntr"},
   AKit_AccelPdlRequest |->
     {"AKit_AccelPdlReq", "AKit_AccelPdlEnblReq", "AKit_AccelPdlIgnoreDriverOvrd",
      "AKit_AccelPdlRollingCntr", "AKit_AccelReqType", "AKit_AccelPcntTorqueReq",
      "AKit_AccelPdlChecksum", "AKit_SpeedReq", "AKit_SpeedModeRoadSlope",
      "AKit_SpeedModeAccelLim", "AKit_SpeedModePosJerkLim"},
   AKit_SteeringRequest |->
     {"AKit_SteeringWhlAngleReq", "AKit_SteeringWhlAngleVelocityLim",
      "AKit_SteerCtrlEnblReq", "AKit_SteeringWhlIgnoreDriverOvrd",
      "AKit_SteeringWhlPcntTrqReq", "AKit_SteeringReqType",
      "AKit_SteeringVehCurvatureReq", "AKit_SteeringChecksum", "AKit_SteerRollingCntr"},
   AKit_PrndRequest |->
     {"AKit_PrndCtrlEnblReq", "AKit_PrndStateReq", "AKit_PrndChecksum",
      "AKit_PrndRollingCntr"},
   AKit_GlobalEnbl |->
     {"AKit_GlobalEnblRollingCntr", "AKit_GlobalByWireEnblReq", "AKit_EnblJoystickLimits",
      "AKit_SoftwareBuildNumber", "AKit_GlobalEnblChecksum"},
   AKit_OtherActuators |->
     {"AKit_TurnSignalReq", "AKit_RightRearDoorReq", "AKit_HighBeamReq",
      "AKit_FrontWiperReq", "AKit_RearWiperReq", "AKit_IgnitionReq",
      "AKit_LeftRearDoorReq", "AKit_LiftgateDoorReq", "AKit_BlockBasicCruiseCtrlBtns",
      "AKit_BlockAdapCruiseCtrlBtns", "AKit_BlockTurnSigStalkInpts", "AKit_OtherChecksum",
      "AKit_HornReq", "AKit_LowBeamReq", "AKit_DoorLockReq", "AKit_RunningLightsReq",
      "AKit_OtherLightsReq", "AKit_ModeLight_Red", "AKit_ModeLight_Yellow",
      "AKit_ModeLight_Green", "AKit_ModeLight_Blue", "AKit_DiffLock",
      "AKit_OtherRollingCntr"},
   AKit_ActionRequest |->
     {"AKit_ActionChecksum", "AKit_ActionCtrlEnblReq", "AKit_ActionVehStopReq",
      "AKit_ActionEmergencyBrkReq", "AKit_ActionRollingCntr"},
   AKit_ArticulationRequest |->
     {"AKit_ArticulationChecksum", "AKit_ArticulationCtrlEnblReq",
      "AKit_ArticulationReqType", "AKit_ArticulationAngleReq",
      "AKit_ArticulationIgnoreDrvrOvrd", "AKit_ArticulationVelocityLimit",
      "AKit_ArticulationRollingCntr"},
   AKit_DumpBedRequest |->
     {"AKit_DumpBedChecksum", "AKit_DumpBedCtrlEnblReq", "AKit_DumpBedReqType",
      "AKit_DumpBedModeReq", "AKit_DumpBedLeverPercentReq", "AKit_DumpBedAnglReq",
      "AKit_DumpBedIgnoreDriverOrvd", "AKit_DumpBedVelocityLimit",
      "AKit_DumpBedRollingCntr"},
   AKit_EngineRequest |->
     {"AKit_EngineChecksum", "AKit_EngineCtrlEnblReq", "AKit_EngineModeReq",
      "AKit_EngineReqType", "AKit_EngineRollingCntr"},
   AKit_GearRequest |->
     {"AKit_PrndStateCmd", "AKit_PrndChecksum"}]

MsgNames == DOMAIN MsgSignals

\* the rolling-counter signal of each message
CounterSignal ==
  [AKit_BrakeRequest |-> "AKit_BrakeRollingCntr",
   AKit_AccelPdlRequest |-> "AKit_AccelPdlRollingCntr",
   AKit_SteeringRequest |-> "AKit_SteerRollingCntr",
   AKit_PrndRequest |-> "AKit_PrndRollingCntr",
   AKit_GlobalEnbl |-> "AKit_GlobalEnblRollingCntr",
   AKit_OtherActuators |-> "AKit_OtherRollingCntr",
   AKit_ActionRequest |-> "AKit_ActionRollingCntr",
   AKit_ArticulationRequest |-> "AKit_ArticulationRollingCntr",
   AKit_DumpBedRequest |-> "AKit_DumpBedRollingCntr",
   AKit_EngineRequest |-> "AKit_EngineRollingCntr"]

\* message->GetSignal(sig)->SetResult(val)
SetResult(n, msg, sig, val) == [n EXCEPT !.dbwDbc_[msg][sig] = val]

\* a run of SetResult(0) statements
SetZero(n, msg, sigs) ==
  [n EXCEPT !.dbwDbc_[msg] = [x \in DOMAIN @ |-> IF x \in sigs THEN 0 ELSE @[x]]]

\* pub_can_->publish(message->GetFrame())
PublishFrame(n, msg) == Emit(n, [k |-> "can", msg |-> msg, sig |-> n.dbwDbc_[msg]])

\* bool to the number SetResult receives
FromBool(b) == IF b THEN 1 ELSE 0

\* variant: std::min returns its second argument, so nothing is bounded above
Min_Unbounded(a, b) == b

Max(a, b) == IF a >= b THEN a ELSE b
Min(a, b) == IF a <= b THEN a ELSE b
Abs(x) == IF x < 0 THEN -x ELSE x

(***************************************************************************)
(* Constants of the raptor_dbw_msgs control-mode messages and the          *)
(* construction-time angle maxima.                                         *)
(***************************************************************************)
OPEN_LOOP == 0
CLOSED_LOOP_ACTUATOR == 1
CLOSED_LOOP_VEHICLE == 2
ACTUATOR_NONE == 3

ARTICULATION_NONE == 0
ARTICULATION_ANGLE == 1

DUMP_BED_NONE == 0
DUMP_BED_MODE == 1
DUMP_BED_ANGLE == 2

DUMP_BED_HOLD == 0
DUMP_BED_DUMP == 1
DUMP_BED_LOWER == 2
DUMP_BED_RAISE == 3

ENGINE_NONE == 0
ENGINE_KEY_SWITCH == 1

max_steer_angle_ == 4
max_dump_angle_ == 3
max_articulation_angle_ == 2

(***************************************************************************)
(* Command encoders.                                                       *)
(***************************************************************************)
\* variant: a control type that is not recognized is encoded as open loop
recvBrakeCmd_PedalThrough(n, msg) ==
  LET m  == "AKit_BrakeRequest"
      n0 == SetZero(n, m, {"AKit_BrakePedalReq", "AKit_BrakeCtrlEnblReq",
                           "AKit_BrakeCtrlReqType", "AKit_BrakePcntTorqueReq",
                           "AKit_SpeedModeDecelLim", "AKit_SpeedModeNegJerkLim",
                           "AKit_ParkingBrkReq"})
      n1 == CASE msg.control_type = OPEN_LOOP ->
                   SetResult(SetResult(n0, m, "AKit_BrakeCtrlReqType", 0),
                             m, "AKit_BrakePedalReq", msg.pedal_cmd)
              [] msg.control_type = CLOSED_LOOP_ACTUATOR ->
                   SetResult(SetResult(n0, m, "AKit_BrakeCtrlReqType", 1),
                             m, "AKit_BrakePcntTorqueReq", msg.torque_cmd)
              [] msg.control_type = CLOSED_LOOP_VEHICLE ->
                   SetResult(SetResult(SetResult(n0, m, "AKit_BrakeCtrlReqType", 2),
                                       m, "AKit_SpeedModeDecelLim", msg.decel_limit),
                             m, "AKit_SpeedModeNegJerkLim", msg.decel_negative_jerk_limit)
              [] OTHER ->
                   SetResult(SetResult(n0, m, "AKit_BrakeCtrlReqType", 0),
                             m, "AKit_BrakePedalReq", msg.pedal_cmd)
      n2 == IF msg.enable THEN SetResult(n1, m, "AKit_BrakeCtrlEnblReq", 1) ELSE n1
      n3 == IF msg.control_type \in {OPEN_LOOP, CLOSED_LOOP_ACTUATOR, CLOSED_LOOP_VEHICLE}
              THEN SetResult(n2, m, "AKit_ParkingBrkReq", msg.park_brake_cmd)
              ELSE n2
      n4 == IF enabled(n0) THEN n3 ELSE n0
  IN  PublishFrame(SetResult(n4, m, "AKit_BrakeRollingCntr", msg.rolling_counter), m)

\* variant: the signals are not zeroed before the command is encoded
recvBrakeCmd_KeepPrevious(n, msg) ==
  LET m  == "AKit_BrakeRequest"
      n1 == CASE msg.control_type = OPEN_LOOP ->
                   SetResult(SetResult(n, m, "AKit_BrakeCtrlReqType", 0),
                             m, "AKit_BrakePedalReq", msg.pedal_cmd)
              [] msg.control_type = CLOSED_LOOP_ACTUATOR ->
                   SetResult(SetResult(n, m, "AKit_BrakeCtrlReqType", 1),
                             m, "AKit_BrakePcntTorqueReq", msg.torque_cmd)
              [] msg.control_type = CLOSED_LOOP_VEHICLE ->
                   SetResult(SetResult(SetResult(n, m, "AKit_BrakeCtrlReqType", 2),
                                       m, "AKit_SpeedModeDecelLim", msg.decel_limit),
                             m, "AKit_SpeedModeNegJerkLim", msg.decel_negative_jerk_limit)
              [] OTHER -> SetResult(n, m, "AKit_BrakeCtrlReqType", 0)
      n2 == IF msg.enable THEN SetResult(n1, m, "AKit_BrakeCtrlEnblReq", 1) ELSE n1
      n3 == IF msg.control_type \in {OPEN_LOOP, CLOSED_LOOP_ACTUATOR, CLOSED_LOOP_VEHICLE}
              THEN SetResult(n2, m, "AKit_ParkingBrkReq", msg.park_brake_cmd)
              ELSE n2
      n4 == IF enabled(n) THEN n3 ELSE n
  IN  PublishFrame(SetResult(n4, m, "AKit_BrakeRollingCntr", msg.rolling_counter), m)

recvBrakeCmd(n, msg) ==
  LET m  == "AKit_BrakeRequest"
      n0 == SetZero(n, m, {"AKit_BrakePedalReq", "AKit_BrakeCtrlEnblReq",
                           "AKit_BrakeCtrlReqType", "AKit_BrakePcntTorqueReq",
                           "AKit_SpeedModeDecelLim", "AKit_SpeedModeNegJerkLim",
                           "AKit_ParkingBrkReq"})
      n1 == CASE msg.control_type = OPEN_LOOP ->
                   SetResult(SetResult(n0, m, "AKit_BrakeCtrlReqType", 0),
                             m, "AKit_BrakePedalReq", msg.pedal_cmd)
              [] msg.control_type = CLOSED_LOOP_ACTUATOR ->
                   SetResult(SetResult(n0, m, "AKit_BrakeCtrlReqType", 1),
                             m, "AKit_BrakePcntTorqueReq", msg.torque_cmd)
              [] msg.control_type = CLOSED_LOOP_VEHICLE ->
                   SetResult(SetResult(SetResult(n0, m, "AKit_BrakeCtrlReqType", 2),
                                       m, "AKit_SpeedModeDecelLim", msg.decel_limit),
                             m, "AKit_SpeedModeNegJerkLim", msg.decel_negative_jerk_limit)
              [] OTHER -> SetResult(n0, m, "AKit_BrakeCtrlReqType", 0)
      n2 == IF msg.enable THEN SetResult(n1, m, "AKit_BrakeCtrlEnblReq", 1) ELSE n1
      n3 == IF msg.control_type \in {OPEN_LOOP, CLOSED_LOOP_ACTUATOR, CLOSED_LOOP_VEHICLE}
              THEN SetResult(n2, m, "AKit_ParkingBrkReq", msg.park_brake_cmd)
              ELSE n2
      n4 == IF enabled(n0) THEN n3 ELSE n0
  IN  PublishFrame(SetResult(n4, m, "AKit_BrakeRollingCntr", msg.rolling_counter), m)

recvAcceleratorPedalCmd(n, msg) ==
  LET m  == "AKit_AccelPdlRequest"
      n0 == SetZero(n, m, {"AKit_AccelPdlReq", "AKit_AccelPdlEnblReq",
                           "AKit_AccelPdlIgnoreDriverOvrd", "AKit_AccelPdlRollingCntr",
                           "AKit_AccelReqType", "AKit_AccelPcntTorqueReq",
                           "AKit_AccelPdlChecksum", "AKit_SpeedReq",
                           "AKit_SpeedModeRoadSlope", "AKit_SpeedModeAccelLim",
                           "AKit_SpeedModePosJerkLim"})
      n1 == CASE msg.control_type = OPEN_LOOP ->
                   SetResult(SetResult(n0, m, "AKit_AccelReqType", 0),
                             m, "AKit_AccelPdlReq", msg.pedal_cmd)
              [] msg.control_type = CLOSED_LOOP_ACTUATOR ->
                   SetResult(SetResult(n0, m, "AKit_AccelReqType", 1),
                             m, "AKit_AccelPcntTorqueReq", msg.torque_cmd)
              [] msg.control_type = CLOSED_LOOP_VEHICLE ->
                   SetResult(SetResult(SetResult(SetResult(SetResult(
                     n0, m, "AKit_AccelReqType", 2),
                         m, "AKit_SpeedReq", msg.speed_cmd),
                         m, "AKit_SpeedModeRoadSlope", msg.road_slope),
                         m, "AKit_SpeedModeAccelLim", msg.accel_limit),
                         m, "AKit_SpeedModePosJerkLim", msg.accel_positive_jerk_limit)
              [] OTHER -> SetResult(n0, m, "AKit_AccelReqType", 0)
      n2 == IF msg.enable THEN SetResult(n1, m, "AKit_AccelPdlEnblReq", 1) ELSE n1
      n3 == IF enabled(n0) THEN n2 ELSE n0
      n4 == SetResult(n3, m, "AKit_AccelPdlRollingCntr", msg.rolling_counter)
      n5 == IF msg.ignore THEN SetResult(n4, m, "AKit_AccelPdlIgnoreDriverOvrd", 1) ELSE n4
  IN  PublishFrame(n5, m)

\* std::roundf(std::fabs(v) / 2.0F) clamped to [1, 254], on whole numbers
VelocityLimit(v) == Max(1, Min(254, (Abs(v) + 1) \div 2))

recvSteeringCmd(n, msg) ==
  LET m  == "AKit_SteeringRequest"
      n0 == SetZero(n, m, {"AKit_SteeringWhlAngleReq", "AKit_SteeringWhlAngleVelocityLim",
                           "AKit_SteerCtrlEnblReq", "AKit_SteeringWhlIgnoreDriverOvrd",
                           "AKit_SteeringWhlPcntTrqReq", "AKit_SteeringReqType",
                           "AKit_SteeringVehCurvatureReq", "AKit_SteeringChecksum"})
      n1 == CASE msg.control_type = OPEN_LOOP ->
                   SetResult(SetResult(n0, m, "AKit_SteeringReqType", 0),
                             m, "AKit_SteeringWhlPcntTrqReq", msg.torque_cmd)
              [] msg.control_type = CLOSED_LOOP_ACTUATOR ->
                   SetResult(SetResult(n0, m, "AKit_SteeringReqType", 1),
                             m, "AKit_SteeringWhlAngleReq",
                             Max(-max_steer_angle_, Min(max_steer_angle_, msg.angle_cmd)))
              [] msg.control_type = CLOSED_LOOP_VEHICLE ->
                   SetResult(SetResult(n0, m, "AKit_SteeringReqType", 2),
                             m, "AKit_SteeringVehCurvatureReq", msg.vehicle_curvature_cmd)
              [] OTHER -> SetResult(n0, m, "AKit_SteeringReqType", 0)
      n2 == IF Abs(msg.angle_velocity) > 0
              THEN SetResult(n1, m, "AKit_SteeringWhlAngleVelocityLim",
                             VelocityLimit(msg.angle_velocity))
              ELSE n1
      n3 == IF msg.enable THEN SetResult(n2, m, "AKit_SteerCtrlEnblReq", 1) ELSE n2
      n4 == IF enabled(n0) THEN n3 ELSE n0
      n5 == IF msg.ignore THEN SetResult(n4, m, "AKit_SteeringWhlIgnoreDriverOvrd", 1) ELSE n4
  IN  PublishFrame(SetResult(n5, m, "AKit_SteerRollingCntr", msg.rolling_counter), m)

\* variant: the rolling counter is written only while enabled
recvGearCmd_CounterWhenEnabled(n, msg) ==
  LET m  == "AKit_PrndRequest"
      n0 == SetZero(n, m, {"AKit_PrndCtrlEnblReq", "AKit_PrndStateReq", "AKit_PrndChecksum"})
      n1 == IF msg.enable THEN SetResult(n0, m, "AKit_PrndCtrlEnblReq", 1) ELSE n0
      n2 == SetResult(SetResult(n1, m, "AKit_PrndStateReq", msg.cmd),
                      m, "AKit_PrndRollingCntr", msg.rolling_counter)
      n3 == IF enabled(n0) THEN n2 ELSE n0
  IN  PublishFrame(n3, m)

recvGearCmd(n, msg) ==
  LET m  == "AKit_PrndRequest"
      n0 == SetZero(n, m, {"AKit_PrndCtrlEnblReq", "AKit_PrndStateReq", "AKit_PrndChecksum"})
      n1 == IF msg.enable THEN SetResult(n0, m, "AKit_PrndCtrlEnblReq", 1) ELSE n0
      n2 == SetResult(n1, m, "AKit_PrndStateReq", msg.cmd)
      n3 == IF enabled(n0) THEN n2 ELSE n0
  IN  PublishFrame(SetResult(n3, m, "AKit_PrndRollingCntr", msg.rolling_counter), m)

recvGlobalEnableCmd(n, msg) ==
  LET m  == "AKit_GlobalEnbl"
      n0 == SetZero(n, m, {"AKit_GlobalEnblRollingCntr", "AKit_GlobalByWireEnblReq",
                           "AKit_EnblJoystickLimits", "AKit_SoftwareBuildNumber",
                           "AKit_GlobalEnblChecksum"})
      n1 == IF msg.global_enable THEN SetResult(n0, m, "AKit_GlobalByWireEnblReq", 1) ELSE n0
      n2 == IF msg.enable_joystick_limits
              THEN SetResult(n1, m, "AKit_EnblJoystickLimits", 1) ELSE n1
      n3 == SetResult(n2, m, "AKit_SoftwareBuildNumber", msg.ecu_build_number)
      n4 == IF enabled(n0) THEN n3 ELSE n0
  IN  PublishFrame(SetResult(n4, m, "AKit_GlobalEnblRollingCntr", msg.rolling_counter), m)

\* the signal each field of a MiscCmd is written to
MiscField ==
  [AKit_IgnitionReq |-> "ignition_cmd", AKit_HornReq |-> "horn_cmd",
   AKit_DiffLock |-> "diff_lock", AKit_TurnSignalReq |-> "turn_signal_cmd",
   AKit_HighBeamReq |-> "high_beam_cmd", AKit_LowBeamReq |-> "low_beam_cmd",
   AKit_RunningLightsReq |-> "running_lights", AKit_OtherLightsReq |-> "other_lights",
   AKit_ModeLight_Red |-> "mode_light_red", AKit_ModeLight_Yellow |-> "mode_light_yellow",
   AKit_ModeLight_Green |-> "mode_light_green", AKit_ModeLight_Blue |-> "mode_light_blue",
   AKit_FrontWiperReq |-> "front_wiper_cmd", AKit_RearWiperReq |-> "rear_wiper_cmd",
   AKit_RightRearDoorReq |-> "door_request_right_rear",
   AKit_LeftRearDoorReq |-> "door_request_left_rear",
   AKit_LiftgateDoorReq |-> "door_request_lift_gate", AKit_DoorLockReq |-> "door_lock_cmd",
   AKit_BlockBasicCruiseCtrlBtns |-> "block_standard_cruise_buttons",
   AKit_BlockAdapCruiseCtrlBtns |-> "block_adaptive_cruise_buttons",
   AKit_BlockTurnSigStalkInpts |-> "block_turn_signal_stalk"]

recvMiscCmd(n, msg) ==
  LET m  == "AKit_OtherActuators"
      n0 == SetZero(n, m, MsgSignals[m] \ {"AKit_OtherRollingCntr"})
      n1 == [n0 EXCEPT !.dbwDbc_[m] =
               [x \in DOMAIN @ |-> IF x \in DOMAIN MiscField THEN msg[MiscField[x]] ELSE @[x]]]
      n2 == IF enabled(n0) THEN n1 ELSE n0
  IN  PublishFrame(SetResult(n2, m, "AKit_OtherRollingCntr", msg.rolling_counter), m)

recvActionCmd(n, msg) ==
  LET m  == "AKit_ActionRequest"
      n0 == SetZero(n, m, {"AKit_ActionChecksum", "AKit_ActionCtrlEnblReq",
                           "AKit_ActionVehStopReq", "AKit_ActionEmergencyBrkReq"})
      n1 == SetResult(SetResult(SetResult(
              n0, m, "AKit_ActionCtrlEnblReq", FromBool(msg.enable)),
                  m, "AKit_ActionVehStopReq", msg.vehicle_stop),
                  m, "AKit_ActionEmergencyBrkReq", msg.emergency_brake)
      n2 == IF enabled(n0) /\ msg.enable THEN n1 ELSE n0
  IN  PublishFrame(SetResult(n2, m, "AKit_ActionRollingCntr", msg.rolling_counter), m)

recvArticulationCmd(n, msg) ==
  LET m  == "AKit_ArticulationRequest"
      n0 == SetZero(n, m, {"AKit_ArticulationChecksum", "AKit_ArticulationCtrlEnblReq",
                           "AKit_ArticulationReqType", "AKit_ArticulationAngleReq",
                           "AKit_ArticulationIgnoreDrvrOvrd",
                           "AKit_ArticulationVelocityLimit"})
      n1 == IF msg.control_type = ARTICULATION_ANGLE
              THEN SetResult(SetResult(n0, m, "AKit_ArticulationReqType", msg.control_type),
                             m, "AKit_ArticulationAngleReq",
                             Max(-max_articulation_angle_,
                                 Min(max_articulation_angle_, msg.angle_cmd)))
              ELSE SetResult(n0, m, "AKit_ArticulationReqType", ARTICULATION_NONE)
      n2 == SetResult(SetResult(SetResult(
              n1, m, "AKit_ArticulationCtrlEnblReq", FromBool(msg.enable)),
                  m, "AKit_ArticulationIgnoreDrvrOvrd", FromBool(msg.ignore_driver)),
                  m, "AKit_ArticulationVelocityLimit", msg.velocity_limit)
      n3 == IF enabled(n0) /\ msg.enable THEN n2 ELSE n0
  IN  PublishFrame(SetResult(n3, m, "AKit_ArticulationRollingCntr", msg.rolling_counter), m)

recvDumpBedCmd(n, msg) ==
  LET m  == "AKit_DumpBedRequest"
      n0 == SetZero(n, m, {"AKit_DumpBedChecksum", "AKit_DumpBedCtrlEnblReq",
                           "AKit_DumpBedReqType", "AKit_DumpBedModeReq",
                           "AKit_DumpBedLeverPercentReq", "AKit_DumpBedAnglReq",
                           "AKit_DumpBedIgnoreDriverOrvd", "AKit_DumpBedVelocityLimit"})
      n1 == CASE msg.control_type = DUMP_BED_MODE ->
                   LET a == SetResult(SetResult(n0, m, "AKit_DumpBedReqType", msg.control_type),
                                      m, "AKit_DumpBedModeReq", msg.mode_type)
                   IN  IF msg.mode_type \in {DUMP_BED_LOWER, DUMP_BED_RAISE}
                         THEN SetResult(a, m, "AKit_DumpBedLeverPercentReq", msg.lever_pct)
                         ELSE a
              [] msg.control_type = DUMP_BED_ANGLE ->
                   SetResult(SetResult(n0, m, "AKit_DumpBedReqType", msg.control_type),
                             m, "AKit_DumpBedAnglReq",
                             Max(0, Min(max_dump_angle_, msg.angle_cmd)))
              [] OTHER -> SetResult(n0, m, "AKit_DumpBedReqType", DUMP_BED_NONE)
      n2 == SetResult(SetResult(SetResult(
              n1, m, "AKit_DumpBedCtrlEnblReq", FromBool(msg.enable)),
                  m, "AKit_DumpBedIgnoreDriverOrvd", FromBool(msg.ignore_driver)),
                  m, "AKit_DumpBedVelocityLimit", msg.velocity_limit)
      n3 == IF enabled(n0) /\ msg.enable THEN n2 ELSE n0
  IN  PublishFrame(SetResult(n3, m, "AKit_DumpBedRollingCntr", msg.rolling_counter), m)

\* variant: the command's own enable flag is not part of the guard
recvEngineCmd_DbwOnly(n, msg) ==
  LET m  == "AKit_EngineRequest"
      n0 == SetZero(n, m, {"AKit_EngineChecksum", "AKit_EngineCtrlEnblReq",
                           "AKit_EngineModeReq", "AKit_EngineReqType"})
      n1 == IF msg.control_type = ENGINE_KEY_SWITCH
              THEN SetResult(SetResult(n0, m, "AKit_EngineReqType", msg.control_type),
                             m, "AKit_EngineModeReq", msg.mode_type)
              ELSE SetResult(n0, m, "AKit_EngineReqType", ENGINE_NONE)
      n2 == SetResult(n1, m, "AKit_EngineCtrlEnblReq", FromBool(msg.enable))
      n3 == IF enabled(n0) THEN n2 ELSE n0
  IN  PublishFrame(SetResult(n3, m, "AKit_EngineRollingCntr", msg.rolling_counter), m)

recvEngineCmd(n, msg) ==
  LET m  == "AKit_EngineRequest"
      n0 == SetZero(n, m, {"AKit_EngineChecksum", "AKit_EngineCtrlEnblReq",
                           "AKit_EngineModeReq", "AKit_EngineReqType"})
      n1 == IF msg.control_type = ENGINE_KEY_SWITCH
              THEN SetResult(SetResult(n0, m, "AKit_EngineReqType", msg.control_type),
                             m, "AKit_EngineModeReq", msg.mode_type)
              ELSE SetResult(n0, m, "AKit_EngineReqType", ENGINE_NONE)
      n2 == SetResult(n1, m, "AKit_EngineCtrlEnblReq", FromBool(msg.enable))
      n3 == IF enabled(n0) /\ msg.enable THEN n2 ELSE n0
  IN  PublishFrame(SetResult(n3, m, "AKit_EngineRollingCntr", msg.rolling_counter), m)

(***************************************************************************)
(* void timerCallback()                                                    *)
(***************************************************************************)
\* the frames of the overridden subsystems, sent while clear() holds
timerCallbackFrames(n) ==
  LET n1 == IF n.overrides_[OVR_BRAKE]
              THEN PublishFrame(SetZero(n, "AKit_BrakeRequest",
                     {"AKit_BrakePedalReq", "AKit_BrakeCtrlEnblReq"}),
                     "AKit_BrakeRequest")
              ELSE n
      n2 == IF n1.overrides_[OVR_ACCEL]
              THEN PublishFrame(SetZero(n1, "AKit_AccelPdlRequest",
                     {"AKit_AccelPdlReq", "AKit_AccelPdlEnblReq",
                      "AKit_AccelPdlIgnoreDriverOvrd"}),
                     "AKit_AccelPdlRequest")
              ELSE n1
      n3 == IF n2.overrides_[OVR_STEER]
              THEN PublishFrame(SetZero(n2, "AKit_SteeringRequest",
                     {"AKit_SteeringWhlAngleReq", "AKit_SteeringWhlAngleVelocityLim",
                      "AKit_SteeringWhlIgnoreDriverOvrd",
                      "AKit_SteeringWhlPcntTrqReq"}),
                     "AKit_SteeringRequest")
              ELSE n2
      n4 == IF n3.overrides_[OVR_GEAR]
              THEN PublishFrame(SetZero(n3, "AKit_GearRequest",
                     {"AKit_PrndStateCmd", "AKit_PrndChecksum"}),
                     "AKit_GearRequest")
              ELSE n3
      n5 == IF n4.overrides_[OVR_DUMP_BED]
              THEN PublishFrame(SetZero(n4, "AKit_DumpBedRequest",
                     {"AKit_DumpBedChecksum", "AKit_DumpBedCtrlEnblReq",
                      "AKit_DumpBedReqType", "AKit_DumpBedModeReq",
                      "AKit_DumpBedLeverPercentReq", "AKit_DumpBedAnglReq",
                      "AKit_DumpBedIgnoreDriverOrvd", "AKit_DumpBedVelocityLimit"}),
                     "AKit_DumpBedRequest")
              ELSE n4
  IN  IF n5.overrides_[OVR_ENGINE]
        THEN PublishFrame(SetZero(n5, "AKit_EngineRequest",
               {"AKit_EngineChecksum", "AKit_EngineCtrlEnblReq",
                "AKit_EngineModeReq", "AKit_EngineReqType"}),
               "AKit_EngineRequest")
        ELSE n5

\* variant: the frames are sent whether or not clear() holds
timerCallback_Always(n) == timerCallbackFrames(n)

\* variant: the frames are sent only while the brake is overridden
timerCallback_BrakeOnly(n) ==
  IF clear(n) /\ n.overrides_[OVR_BRAKE] THEN timerCallbackFrames(n) ELSE n

timerCallback(n) == IF clear(n) THEN timerCallbackFrames(n) ELSE n

(***************************************************************************)
(* RaptorDbwCAN::RaptorDbwCAN(): the member arrays are initialised and the *)
(* enabled state is published once.                                        *)
(***************************************************************************)
\* variant: the last published value starts false as well
Constructed_ShadowClear ==
  publishDbwEnabled(
    [enables_ |-> [i \in 0..(NUM_ENABLES - 1) |-> FALSE],
     overrides_ |-> [i \in 0..(NUM_OVERRIDES - 1) |-> FALSE],
     faults_ |-> [i \in 0..(NUM_FAULTS - 1) |-> FALSE],
     dbwDbc_ |-> [m \in MsgNames |-> [x \in MsgSignals[m] |-> 0]],
     vin_ |-> <<>>,
     joint_state_ |-> [stamp |-> ZeroStamp,
                       position |-> [i \in 0..(JOINT_COUNT - 1) |-> 0],
                       velocity |-> [i \in 0..(JOINT_COUNT - 1) |-> 0]],
     out |-> <<>>]).n

Constructed ==
  publishDbwEnabled(
    [enables_ |-> [i \in 0..(NUM_ENABLES - 1) |-> i = EN_DBW_PREV],
     overrides_ |-> [i \in 0..(NUM_OVERRIDES - 1) |-> FALSE],
     faults_ |-> [i \in 0..(NUM_FAULTS - 1) |-> FALSE],
     dbwDbc_ |-> [m \in MsgNames |-> [x \in MsgSignals[m] |-> 0]],
     vin_ |-> <<>>,
     joint_state_ |-> [stamp |-> ZeroStamp,
                       position |-> [i \in 0..(JOINT_COUNT - 1) |-> 0],
                       velocity |-> [i \in 0..(JOINT_COUNT - 1) |-> 0]],
     out |-> <<>>]).n

(***************************************************************************)
(* State machine: one action per subscription callback and the timer.      *)
(* op names the callback that ran last, out is what it did, last_pub is    *)
(* the value of the last dbw_enabled message published so far, tripped     *)
(* tells that a setFault / setOverride call has disabled the enabled       *)
(* system and no enable request was received since, ncmd counts the        *)
(* commands encoded so far, vin_rx lists the VIN frames received so far,   *)
(* each with the VIN strings published while it was handled, and nstamped  *)
(* counts the stamped frames received so far.                              *)
(***************************************************************************)
\* the arbitration calls of a callback that found the system enabled and
\* were given value = true
Cutoffs(o) ==
  {i \in 1..Len(o) : /\ o[i].k \in {"setFault", "setOverride"}
                      /\ o[i].value
                      /\ o[i].en_before}

Published(o) == {i \in 1..Len(o) : o[i].k = "dbw_enabled"}

LastPublished(o, prev) ==
  IF Published(o) = {} THEN prev
  ELSE o[CHOOSE i \in Published(o) : \A j \in Published(o) : j <= i].data

Return(name, n) ==
  /\ enables_' = n.enables_
  /\ faults_' = n.faults_
  /\ overrides_' = n.overrides_
  /\ dbwDbc_' = n.dbwDbc_
  /\ vin_' = n.vin_
  /\ joint_state_' = n.joint_state_
  /\ op' = name
  /\ out' = n.out
  /\ last_pub' = LastPublished(n.out, last_pub)
  /\ tripped' = IF name = "recvEnable" THEN FALSE
                ELSE IF Cutoffs(n.out) # {} THEN TRUE
                ELSE tripped

Init ==
  /\ enables_ = Constructed.enables_
  /\ faults_ = Constructed.faults_
  /\ overrides_ = Constructed.overrides_
  /\ dbwDbc_ = Constructed.dbwDbc_
  /\ vin_ = Constructed.vin_
  /\ joint_state_ = Constructed.joint_state_
  /\ op = "RaptorDbwCAN"
  /\ out = Constructed.out
  /\ last_pub = LastPublished(Constructed.out, TRUE)
  /\ tripped = FALSE
  /\ ncmd = 0
  /\ vin_rx = <<>>
  /\ nstamped = 0

\* the fault and override conditions the vehicle asserts (the flags the
\* reports set directly; the watchdog flags are derived from them)
Asserted(n) ==
  Cardinality({i \in (0..(NUM_SERIOUS_FAULTS - 1)) \ {FAULT_WATCH} : n.faults_[i]})
  + Cardinality({i \in 0..(NUM_OVERRIDES - 1) : n.overrides_[i]})

\* a report frame is delivered when it leaves at most MaxAsserted conditions
\* asserted
Delivered(n) == Asserted(n) <= MaxAsserted /\ Return("recvCAN", n)

RecvEnable ==
  /\ Return("recvEnable", enableSystem(Node))
  /\ UNCHANGED <<ncmd, vin_rx, nstamped>>

RecvDisable ==
  /\ Return("recvDisable", disableSystem(Node))
  /\ UNCHANGED <<ncmd, vin_rx, nstamped>>

RecvCAN ==
  \E id \in ReportIds : \E msg \in Frames[id] :
    /\ Delivered(recvCAN(Node, msg))
    /\ UNCHANGED <<ncmd, vin_rx, nstamped>>

\* the VIN frames delivered to recvCAN: each multiplexor value (3 is not a
\* VIN phase) with two sets of digits in a well-formed frame, and the first
\* and last phase in the frames that are short, remote or error frames; the
\* k-th digit of the VIN is the character with code base + k
VinSignals(mux, base) ==
  IF mux \in DOMAIN VinDigits
    THEN [x \in {"DBW_VinMultiplexor"} \cup {VinDigits[mux][i] : i \in 1..Len(VinDigits[mux])} |->
            IF x = "DBW_VinMultiplexor" THEN mux
            ELSE base + 7 * mux
                   + (CHOOSE i \in 1..Len(VinDigits[mux]) : VinDigits[mux][i] = x)]
    ELSE [x \in {"DBW_VinMultiplexor"} |-> mux]

VinFrames ==
  {Frame(ID_VIN, GoodShape, VinSignals(mux, base)) :
     mux \in {VIN_MUX_VIN0, VIN_MUX_VIN1, VIN_MUX_VIN2, 3}, base \in {48, 64}}
  \cup {Frame(ID_VIN, shape, VinSignals(mux, 48)) :
          shape \in BadShapes, mux \in {VIN_MUX_VIN0, VIN_MUX_VIN2}}

\* the VIN strings published in o, in order
VinPublished(o) ==
  LET sel == SelectSeq(o, LAMBDA e : e.k = "vin")
  IN  [i \in 1..Len(sel) |-> sel[i].data]

Fed(n, msg) ==
  /\ Return("recvCAN", n)
  /\ vin_rx' = Append(vin_rx, [msg |-> msg, pub |-> VinPublished(n.out)])
  /\ UNCHANGED <<ncmd, nstamped>>

RecvVin ==
  /\ Len(vin_rx) < MaxVinFrames
  /\ \E msg \in VinFrames : Fed(recvCAN(Node, msg), msg)

TimerCallback ==
  /\ Return("timerCallback", timerCallback(Node))
  /\ UNCHANGED <<ncmd, vin_rx, nstamped>>

(***************************************************************************)
(* Commands delivered to the encoders.  Set-point fields take the value 0  *)
(* or the non-zero value 5, angles lie inside and outside the configured   *)
(* maxima, control types include a code no encoder recognizes.             *)
(***************************************************************************)
SetPoint == {0, 5}
Counters == {0, 255}
ActuatorModes == {OPEN_LOOP, CLOSED_LOOP_ACTUATOR, CLOSED_LOOP_VEHICLE, ACTUATOR_NONE}
\* <<angle_cmd, angle_velocity>> of a steering command
SteerMotions == {<<0, 0>>, <<9, 1>>, <<-9, -3>>, <<1, 600>>}
Angles == {-9, 0, 1, 9}

BrakeCmds ==
  {[enable |-> e, control_type |-> c, pedal_cmd |-> v, torque_cmd |-> v,
    decel_limit |-> v, decel_negative_jerk_limit |-> v, park_brake_cmd |-> v,
    rolling_counter |-> r] :
     e \in BOOLEAN, c \in ActuatorModes, v \in SetPoint, r \in Counters}

AcceleratorPedalCmds ==
  {[enable |-> e, ignore |-> ig, control_type |-> c, pedal_cmd |-> v, torque_cmd |-> v,
    speed_cmd |-> v, road_slope |-> v, accel_limit |-> v,
    accel_positive_jerk_limit |-> v, rolling_counter |-> r] :
     e \in BOOLEAN, ig \in BOOLEAN, c \in ActuatorModes, v \in SetPoint, r \in Counters}

SteeringCmds ==
  {[enable |-> e, ignore |-> ig, control_type |-> c, angle_cmd |-> a[1],
    angle_velocity |-> a[2], torque_cmd |-> Abs(a[1]), vehicle_curvature_cmd |-> Abs(a[1]),
    rolling_counter |-> r] :
     e \in BOOLEAN, ig \in BOOLEAN, c \in ActuatorModes, a \in SteerMotions, r \in Counters}

GearCmds ==
  {[enable |-> e, cmd |-> v, rolling_counter |-> r] :
     e \in BOOLEAN, v \in SetPoint, r \in Counters}

GlobalEnableCmds ==
  {[global_enable |-> e, enable_joystick_limits |-> j, ecu_build_number |-> v,
    rolling_counter |-> r] :
     e \in BOOLEAN, j \in BOOLEAN, v \in SetPoint, r \in Counters}

MiscFields == {MiscField[x] : x \in DOMAIN MiscField}

MiscCmds ==
  {[x \in MiscFields \cup {"rolling_counter"} |->
      IF x = "rolling_counter" THEN r ELSE v] : v \in SetPoint, r \in Counters}

ActionCmds ==
  {[enable |-> e, vehicle_stop |-> v, emergency_brake |-> v, rolling_counter |-> r] :
     e \in BOOLEAN, v \in SetPoint, r \in Counters}

ArticulationCmds ==
  {[enable |-> e, control_type |-> c, angle_cmd |-> a, ignore_driver |-> a # 0,
    velocity_limit |-> Abs(a), rolling_counter |-> r] :
     e \in BOOLEAN, c \in {ARTICULATION_NONE, ARTICULATION_ANGLE, 2}, a \in Angles,
     r \in Counters}

DumpBedCmds ==
  {[enable |-> e, control_type |-> c, mode_type |-> md, lever_pct |-> Abs(a),
    angle_cmd |-> a, ignore_driver |-> a # 0, velocity_limit |-> Abs(a),
    rolling_counter |-> r] :
     e \in BOOLEAN, c \in {DUMP_BED_NONE, DUMP_BED_MODE, DUMP_BED_ANGLE, 3},
     md \in {DUMP_BED_DUMP, DUMP_BED_RAISE}, a \in Angles, r \in Counters}

EngineCmds ==
  {[enable |-> e, control_type |-> c, mode_type |-> v, rolling_counter |-> r] :
     e \in BOOLEAN, c \in {ENGINE_NONE, ENGINE_KEY_SWITCH, 2}, v \in SetPoint,
     r \in Counters}

\* the boolean fields of the command messages
BoolFields ==
  {"enable", "ignore", "ignore_driver", "global_enable", "enable_joystick_limits"}

\* a command in which every field is zero or false
Quiet(cmd) == \A x \in DOMAIN cmd : IF x \in BoolFields THEN ~cmd[x] ELSE cmd[x] = 0

\* the callback received msg; out starts with the message
Received(msg) == [Node EXCEPT !.out = <<[k |-> "cmd", msg |-> msg]>>]

RecvBrakeCmd(cmds) ==
  \E msg \in cmds : Return("recvBrakeCmd", recvBrakeCmd(Received(msg), msg))

RecvAcceleratorPedalCmd(cmds) ==
  \E msg \in cmds :
    Return("recvAcceleratorPedalCmd", recvAcceleratorPedalCmd(Received(msg), msg))

RecvSteeringCmd(cmds) ==
  \E msg \in cmds : Return("recvSteeringCmd", recvSteeringCmd(Received(msg), msg))

RecvGearCmd(cmds) ==
  \E msg \in cmds : Return("recvGearCmd", recvGearCmd(Received(msg), msg))

RecvGlobalEnableCmd(cmds) ==
  \E msg \in cmds : Return("recvGlobalEnableCmd", recvGlobalEnableCmd(Received(msg), msg))

RecvMiscCmd(cmds) ==
  \E msg \in cmds : Return("recvMiscCmd", recvMiscCmd(Received(msg), msg))

RecvActionCmd(cmds) ==
  \E msg \in cmds : Return("recvActionCmd", recvActionCmd(Received(msg), msg))

RecvArticulationCmd(cmds) ==
  \E msg \in cmds : Return("recvArticulationCmd", recvArticulationCmd(Received(msg), msg))

RecvDumpBedCmd(cmds) ==
  \E msg \in cmds : Return("recvDumpBedCmd", recvDumpBedCmd(Received(msg), msg))

RecvEngineCmd(cmds) ==
  \E msg \in cmds : Return("recvEngineCmd", recvEngineCmd(Received(msg), msg))

(***************************************************************************)
(* Spec: the arbitration engine under every report frame, the enable and   *)
(* disable requests, the timer, and quiet commands (which leave the        *)
(* message objects as they are).                                           *)
(***************************************************************************)
QuietOf(cmds) == {msg \in cmds : Quiet(msg)}

QuietCmd ==
  /\ \/ RecvBrakeCmd(QuietOf(BrakeCmds))
     \/ RecvAcceleratorPedalCmd(QuietOf(AcceleratorPedalCmds))
     \/ RecvSteeringCmd(QuietOf(SteeringCmds))
     \/ RecvGearCmd(QuietOf(GearCmds))
     \/ RecvGlobalEnableCmd(QuietOf(GlobalEnableCmds))
     \/ RecvMiscCmd(QuietOf(MiscCmds))
     \/ RecvActionCmd(QuietOf(ActionCmds))
     \/ RecvArticulationCmd(QuietOf(ArticulationCmds))
     \/ RecvDumpBedCmd(QuietOf(DumpBedCmds))
     \/ RecvEngineCmd(QuietOf(EngineCmds))
  /\ UNCHANGED <<ncmd, vin_rx, nstamped>>

Next == RecvEnable \/ RecvDisable \/ RecvCAN \/ TimerCallback \/ QuietCmd

Spec == Init /\ [][Next]_vars

(***************************************************************************)
(* SpecEnc: the command encoders under every command, with the enable and  *)
(* disable requests and the timer; at most MaxCmds commands per run.       *)
(***************************************************************************)
AnyCmd ==
  /\ ncmd < MaxCmds
  /\ ncmd' = ncmd + 1
  /\ UNCHANGED <<vin_rx, nstamped>>
  /\ \/ RecvBrakeCmd(BrakeCmds)
     \/ RecvAcceleratorPedalCmd(AcceleratorPedalCmds)
     \/ RecvSteeringCmd(SteeringCmds)
     \/ RecvGearCmd(GearCmds)
     \/ RecvGlobalEnableCmd(GlobalEnableCmds)
     \/ RecvMiscCmd(MiscCmds)
     \/ RecvActionCmd(ActionCmds)
     \/ RecvArticulationCmd(ArticulationCmds)
     \/ RecvDumpBedCmd(DumpBedCmds)
     \/ RecvEngineCmd(EngineCmds)

NextEnc == RecvEnable \/ RecvDisable \/ TimerCallback \/ AnyCmd

SpecEnc == Init /\ [][NextEnc]_vars

(***************************************************************************)
(* SpecTimer: the timer after commands have been encoded: the enable       *)
(* request, every command (at most MaxCmds per run), the fault-free report *)
(* frames that set or clear a driver override (at most MaxOverridden       *)
(* asserted at a time) and the timer.                                      *)
(***************************************************************************)
ActivitySignals ==
  {"DBW_BrakeDriverActivity", "DBW_AccelPdlDriverActivity", "DBW_SteeringDriverActivity",
   "DBW_PrndDriverActivity", "DBW_DumpBedDriverActivity", "DBW_EngineDriverActivity"}

ActivityFrames ==
  {msg \in UNION {Frames[id] : id \in ReportIds} :
     /\ msg.dlc = GoodShape.dlc /\ ~msg.is_rtr /\ ~msg.is_error
     /\ DOMAIN msg.sig \cap ActivitySignals # {}
     /\ \A x \in DOMAIN msg.sig \ ActivitySignals : msg.sig[x] = 0}

Overridden(n) == Asserted(n) <= MaxOverridden /\ Return("recvCAN", n)

RecvActivity ==
  /\ \E msg \in ActivityFrames : Overridden(recvCAN(Node, msg))
  /\ UNCHANGED <<ncmd, vin_rx, nstamped>>

NextTimer == RecvEnable \/ RecvActivity \/ TimerCallback \/ AnyCmd

SpecTimer == Init /\ [][NextTimer]_vars

(***************************************************************************)
(* SpecVin: the VIN reassembly under every sequence of at most             *)
(* MaxVinFrames VIN frames, with the enable and disable requests.          *)
(***************************************************************************)
NextVin == RecvEnable \/ RecvDisable \/ RecvVin

SpecVin == Init /\ [][NextVin]_vars

(***************************************************************************)
(* Properties.                                                             *)
(***************************************************************************)
IsEnabled == enabled(Node)

SeriousFaultIds == 0..(NUM_SERIOUS_FAULTS - 1)
OverrideIds == 0..(NUM_OVERRIDES - 1)

\* the values of the dbw_enabled messages in o, in order
Events(o) ==
  LET sel == SelectSeq(o, LAMBDA e : e.k = "dbw_enabled")
  IN  [i \in 1..Len(sel) |-> sel[i].data]

\* the CAN frames in o, in order
CanFrames(o) == SelectSeq(o, LAMBDA e : e.k = "can")

\* the log texts in o
Logs(o) == {o[i].text : i \in {j \in 1..Len(o) : o[j].k = "log"}}

\* the arbitration calls recorded in o
Calls(o) == {i \in 1..Len(o) : o[i].k \in {"setFault", "setOverride"}}

\* C1: whenever setFault(id, true) with a serious-fault id or
\* setOverride(id, true) with a valid override id is called while enabled()
\* is true, enabled() is false when the call returns.  Stated of every call a
\* callback made, and of the two functions applied to the current state.
C1_SynchronousCutoff ==
  /\ \A i \in Cutoffs(out) : ~out[i].en_after
  /\ IsEnabled =>
       /\ \A id \in SeriousFaultIds : ~enabled(setFault(Node, id, TRUE))
       /\ \A id \in OverrideIds : ~enabled(setOverride(Node, id, TRUE))

\* a callback in which setFault(id, true) found the system enabled
C1_Witness ==
  \E i \in Cutoffs(out) : out[i].k = "setFault" /\ ~out[i].en_after /\ ~IsEnabled

C3_EnableRejectedOnFault ==
  [][(op' = "recvEnable" /\ fault(Node)) =>
       /\ ~IsEnabled'
       /\ enables_'[EN_DBW] = enables_[EN_DBW]
       /\ faults_' = faults_
       /\ overrides_' = overrides_
       /\ Events(out') = <<>>]_vars

\* an enable request has just been rejected because of a fault
C3_Witness ==
  /\ op = "recvEnable"
  /\ fault(Node)
  /\ ~IsEnabled
  /\ \E i \in SeriousFaultIds :
       ("DBW system disabled - " \o FAULT_SYSTEM[i] \o " fault.") \in Logs(out)

C5_NoAutomaticRecovery == tripped => ~IsEnabled

\* after a forced disable, a later report frame has cleared every fault and
\* every override and the system is still disabled
C5_Witness ==
  /\ tripped
  /\ op = "recvCAN"
  /\ Cutoffs(out) = {}
  /\ Calls(out) # {}
  /\ ~fault(Node)
  /\ ~override(Node)
  /\ ~IsEnabled

Alternates(q) == \A i \in 1..(Len(q) - 1) : q[i] # q[i + 1]

\* C6: publishDbwEnabled() publishes and returns true exactly when enabled()
\* differs from the last published value, so consecutive published values
\* alternate; from the enabled state two consecutive setFault(X, true) calls
\* publish exactly one message, with value false.
C6_EdgeTriggered ==
  [][/\ Alternates(<<last_pub>> \o Events(out'))
     /\ \A prev \in BOOLEAN :
          LET n == [Node EXCEPT !.enables_[EN_DBW_PREV] = prev]
              p == publishDbwEnabled(n)
          IN  /\ p.change = (prev # enabled(n))
              /\ Events(p.n.out) = IF prev # enabled(n) THEN <<enabled(n)>> ELSE <<>>
     /\ IsEnabled =>
          \A X \in SeriousFaultIds :
            Events(setFault(setFault(Node, X, TRUE), X, TRUE).out) = <<FALSE>>]_vars

\* a callback called setFault(., true) twice in a row, the first call
\* finding the system enabled, and one message (false) was published
C6_Witness ==
  /\ Events(out) = <<FALSE>>
  /\ \E i, j \in Calls(out) :
       /\ i < j
       /\ out[i].k = "setFault" /\ out[i].value /\ out[i].en_before
       /\ out[j].k = "setFault" /\ out[j].value /\ ~out[j].en_before
       /\ \A h \in Calls(out) : ~(i < h /\ h < j)

(***************************************************************************)
(* Properties of the command encoders.                                     *)
(***************************************************************************)
CmdOps ==
  {"recvBrakeCmd", "recvAcceleratorPedalCmd", "recvSteeringCmd", "recvGearCmd",
   "recvGlobalEnableCmd", "recvMiscCmd", "recvActionCmd", "recvArticulationCmd",
   "recvDumpBedCmd", "recvEngineCmd"}

\* the encoders whose command carries an enable flag
EnableCmdOps == CmdOps \ {"recvGlobalEnableCmd", "recvMiscCmd"}

\* the encoders that guard on enabled() && msg->enable
GuardedCmdOps ==
  {"recvActionCmd", "recvArticulationCmd", "recvDumpBedCmd", "recvEngineCmd"}

\* every signal of the frame other than the rolling counter is zero
Neutral(frame) ==
  \A x \in DOMAIN frame.sig : x # CounterSignal[frame.msg] => frame.sig[x] = 0

\* the command the callback received
Cmd == out[1].msg

\* some field of the command other than enable and the rolling counter is set
Populated(cmd) ==
  \E x \in (DOMAIN cmd) \ {"enable", "rolling_counter"} :
    IF x \in BoolFields THEN cmd[x] ELSE cmd[x] # 0

\* C7: while enabled() is false every command encoder produces a frame in
\* which every signal other than the rolling counter is zero, whatever the
\* command holds.
C7_DisabledFrameNeutral ==
  (op \in CmdOps /\ ~IsEnabled) =>
    (Len(CanFrames(out)) = 1 /\ Neutral(CanFrames(out)[1]))

\* C8: a command whose enable flag is false is encoded as the neutral frame
\* (every signal other than the rolling counter zero), whether or not
\* enabled() is true.
C8_EnableFalseNeutral ==
  (op \in EnableCmdOps /\ ~Cmd.enable) =>
    (Len(CanFrames(out)) = 1 /\ Neutral(CanFrames(out)[1]))

\* C9: the action, articulation, dump-bed and engine encoders write non-zero
\* command signals only when enabled() and the command's enable flag are both
\* true; otherwise every signal other than the rolling counter is zero.
C9_GuardedEncodersNeutral ==
  (op \in GuardedCmdOps /\ ~(IsEnabled /\ Cmd.enable)) =>
    (Len(CanFrames(out)) = 1 /\ Neutral(CanFrames(out)[1]))

\* the enabled system has encoded a populated command whose enable flag is
\* false as a neutral frame
C9_Witness ==
  /\ op \in GuardedCmdOps
  /\ IsEnabled
  /\ ~Cmd.enable
  /\ Populated(Cmd)
  /\ Neutral(CanFrames(out)[1])

(***************************************************************************)
(* Properties of the report decoders.                                      *)
(***************************************************************************)
\* the override a report's driver-activity signal belongs to
OverrideOf ==
  [brake_report |-> OVR_BRAKE, accelerator_pedal_report |-> OVR_ACCEL,
   steering_report |-> OVR_STEER, articulation_report |-> OVR_ARTIC,
   dump_bed_report |-> OVR_DUMP_BED, engine_report |-> OVR_ENGINE]

\* the reports in o
Reports(o) == {o[i] : i \in {j \in 1..Len(o) : o[j].k = "report"}}

\* C10: a full-length brake, accelerator pedal, steering, articulation, dump
\* bed or engine report frame with the driver-activity signal set leaves that
\* subsystem's override flag true, and the system disabled if it was enabled.
C10_DriverActivityOverrides ==
  [][\A r \in Reports(out') :
       (r.topic \in DOMAIN OverrideOf /\ r.driver_activity) =>
         /\ overrides_'[OverrideOf[r.topic]]
         /\ IsEnabled => ~IsEnabled']_vars

\* the serious fault a report's subsystem fault field belongs to
FaultOf ==
  [brake_report |-> FAULT_BRAKE, accelerator_pedal_report |-> FAULT_ACCEL,
   steering_report |-> FAULT_STEER, action_report |-> FAULT_ACTION,
   articulation_report |-> FAULT_ARTIC, dump_bed_report |-> FAULT_DUMP_BED,
   engine_report |-> FAULT_ENGINE]

\* C11: the subsystem fault field of a brake, accelerator pedal, steering,
\* action, articulation, dump bed or engine report equals the fault flag of
\* that subsystem as it stands when the frame has been processed.
C11_ReportFaultMatches ==
  \A r \in Reports(out) :
    r.topic \in DOMAIN FaultOf => (r.fault = faults_[FaultOf[r.topic]])

\* every frame the model delivers to recvCAN
AllFrames == UNION {Frames[id] : id \in ReportIds} \cup VinFrames

\* the data frames whose declared length is below the length of their message
ShortFrames == {msg \in AllFrames : ~msg.is_rtr /\ ~msg.is_error /\ msg.dlc < GetDlc(msg.id)}

\* the remote frames and the error frames
FlaggedFrames == {msg \in AllFrames : msg.is_rtr \/ msg.is_error}

\* C12: a frame whose declared length is smaller than the length of its
\* message is dropped by every decoder, the gear decoder included: recvCAN
\* publishes nothing and changes no fault, override or enabled state.
C12_ShortFrameDropped ==
  \A msg \in ShortFrames : recvCAN(Node, msg) = Node

\* C13: a remote frame or an error frame never reaches a decoder: for every
\* frame id and payload recvCAN changes nothing (enabled, fault and override
\* state, VIN buffer) and publishes nothing.
C13_FlaggedFrameIgnored ==
  \A msg \in FlaggedFrames : recvCAN(Node, msg) = Node

\* the enabled system has received a frame that changed nothing, and a remote
\* frame with driver activity and fault signals set is ignored in this state
\* although the same payload in a data frame disables the system
C13_Witness ==
  /\ op = "recvCAN"
  /\ out = <<>>
  /\ IsEnabled
  /\ \E msg \in FlaggedFrames :
       /\ msg.is_rtr
       /\ msg.id = ID_BRAKE_REPORT
       /\ msg.sig.DBW_BrakeFault = 1
       /\ recvCAN(Node, msg) = Node
       /\ ~enabled(recvCAN(Node, [msg EXCEPT !.is_rtr = FALSE]))

(***************************************************************************)
(* Properties of the timer.                                                *)
(***************************************************************************)
\* C14: a timer tick that occurs while enabled() is true emits no frame, and
\* no timer tick changes the enable flag, a fault flag or an override flag or
\* publishes a dbw_enabled message.
C14_TimerMaintenanceOnly ==
  [][op' = "timerCallback" =>
       /\ IsEnabled => CanFrames(out') = <<>>
       /\ enables_' = enables_
       /\ faults_' = faults_
       /\ overrides_' = overrides_
       /\ Events(out') = <<>>]_vars

\* a tick of the enabled system with an override flag still set, which
\* emitted nothing
C14_Witness ==
  /\ op = "timerCallback"
  /\ IsEnabled
  /\ override(Node)
  /\ out = <<>>

\* the overrides the timer looks at, each with the messages that carry the
\* command of that subsystem (AKit_PrndRequest in the gear encoder,
\* AKit_GearRequest in the timer)
TimerMessages ==
  [i \in {OVR_BRAKE, OVR_ACCEL, OVR_STEER, OVR_GEAR, OVR_DUMP_BED, OVR_ENGINE} |->
     CASE i = OVR_BRAKE -> {"AKit_BrakeRequest"}
       [] i = OVR_ACCEL -> {"AKit_AccelPdlRequest"}
       [] i = OVR_STEER -> {"AKit_SteeringRequest"}
       [] i = OVR_GEAR -> {"AKit_PrndRequest", "AKit_GearRequest"}
       [] i = OVR_DUMP_BED -> {"AKit_DumpBedRequest"}
       [] i = OVR_ENGINE -> {"AKit_EngineRequest"}]

\* the frames in o built on one of the messages msgs
FramesOf(o, msgs) == {i \in 1..Len(o) : o[i].k = "can" /\ o[i].msg \in msgs}

\* C15: on every timer tick that occurs while enabled() is false, one command
\* frame is emitted for every subsystem (brake, accelerator pedal, steering,
\* gear, dump bed, engine) whose override flag is true, also on the ticks
\* that follow a disable forced by that override.
C15_TickPerOverride ==
  (op = "timerCallback" /\ ~IsEnabled) =>
    \A i \in DOMAIN TimerMessages :
      overrides_[i] => Cardinality(FramesOf(out, TimerMessages[i])) = 1

\* a tick after an override has disabled the enabled system, with two
\* overrides asserted and one frame for each
C15_Witness ==
  /\ op = "timerCallback"
  /\ tripped
  /\ ~IsEnabled
  /\ ~fault(Node)
  /\ overrides_[OVR_BRAKE]
  /\ overrides_[OVR_GEAR]
  /\ Len(CanFrames(out)) = 2

\* the message each command encoder of an overridable subsystem builds its
\* frame on
EncoderMessages ==
  {"AKit_BrakeRequest", "AKit_AccelPdlRequest", "AKit_SteeringRequest",
   "AKit_PrndRequest", "AKit_DumpBedRequest", "AKit_EngineRequest"}

\* C16: every frame the timer emits is the neutral frame of the encoder of
\* that subsystem: built on the message the encoder uses, with every signal
\* other than the rolling counter zero, whatever command was encoded before.
C16_TimerFrameNeutral ==
  op = "timerCallback" =>
    \A i \in 1..Len(CanFrames(out)) :
      /\ CanFrames(out)[i].msg \in EncoderMessages
      /\ Neutral(CanFrames(out)[i])

(***************************************************************************)
(* Properties of the VIN reassembly.  Every run starts with an empty       *)
(* buffer, so vin_rx is the sequence of VIN frames fed to an empty buffer. *)
(***************************************************************************)
\* the i-th VIN frame received was a well-formed frame of phase mux
Phase(i, mux) ==
  /\ i <= Len(vin_rx)
  /\ vin_rx[i].msg.dlc >= GetDlc(ID_VIN)
  /\ ~vin_rx[i].msg.is_rtr
  /\ ~vin_rx[i].msg.is_error
  /\ vin_rx[i].msg.sig.DBW_VinMultiplexor = mux

\* the characters the i-th VIN frame carries for phase mux, in signal order
Characters(i, mux) ==
  [j \in 1..Len(VinDigits[mux]) |-> vin_rx[i].msg.sig[VinDigits[mux][j]]]

\* C17: a phase-0 frame, then a phase-1 frame, then a phase-2 frame fed to an
\* empty buffer emit the VIN exactly once, while the phase-2 frame is
\* handled, and the value is the 17 characters in order (7, 7, 3); nothing
\* is emitted while a phase-0 or phase-1 frame is handled.
C17_VinCompleteSequence ==
  /\ \A i \in 1..Len(vin_rx) :
       (Phase(i, VIN_MUX_VIN0) \/ Phase(i, VIN_MUX_VIN1)) => vin_rx[i].pub = <<>>
  /\ (Phase(1, VIN_MUX_VIN0) /\ Phase(2, VIN_MUX_VIN1) /\ Phase(3, VIN_MUX_VIN2)) =>
       /\ vin_rx[1].pub = <<>>
       /\ vin_rx[2].pub = <<>>
       /\ vin_rx[3].pub =
            <<Characters(1, VIN_MUX_VIN0) \o Characters(2, VIN_MUX_VIN1)
                \o Characters(3, VIN_MUX_VIN2)>>

\* the three phases have been received in order, with different digits in
\* the first two frames, and 17 characters were published
C17_Witness ==
  /\ Len(vin_rx) = 3
  /\ Phase(1, VIN_MUX_VIN0) /\ Phase(2, VIN_MUX_VIN1) /\ Phase(3, VIN_MUX_VIN2)
  /\ vin_rx[1].msg.sig.DBW_VinDigit_01 # vin_rx[2].msg.sig.DBW_VinDigit_08 - 7
  /\ Len(vin_rx[3].pub) = 1
  /\ Len(vin_rx[3].pub[1]) = 17
  /\ vin_ = vin_rx[3].pub[1]

\* C18: a phase-0 frame followed directly by a phase-2 frame, fed to an empty
\* buffer, never emits a VIN.
C18_VinSkippedPhase ==
  (Phase(1, VIN_MUX_VIN0) /\ Phase(2, VIN_MUX_VIN2)) =>
    (vin_rx[1].pub = <<>> /\ vin_rx[2].pub = <<>>)

(***************************************************************************)
(* SpecWatchdog: the three-argument watchdog under every (fault, src,      *)
(* braking), with the enable and disable requests.  No handler passes a    *)
(* braking context of its own, so the function is called directly.         *)
(***************************************************************************)
\* src is a uint8_t tested for non-zero
WatchdogCalls == [fault : BOOLEAN, src : {0, 1, 2}, braking : BOOLEAN]

\* faultWatchdog was called with args; out starts with the arguments
Invoked(args) == [Node EXCEPT !.out = <<[k |-> "call", args |-> args]>>]

FaultWatchdog ==
  \E args \in WatchdogCalls :
    /\ Return("faultWatchdog",
              faultWatchdog3(Invoked(args), args.fault, args.src, args.braking))
    /\ UNCHANGED <<ncmd, vin_rx, nstamped>>

NextWatchdog == RecvEnable \/ RecvDisable \/ FaultWatchdog

SpecWatchdog == Init /\ [][NextWatchdog]_vars

\* how many times text is logged in o
LogCount(o, text) ==
  Cardinality({i \in 1..Len(o) : o[i].k = "log" /\ o[i].text = text})

NewBrakingFault == "Watchdog - new braking fault."

Limited(x, lo, hi) == IF x < lo THEN lo ELSE IF x > hi THEN hi ELSE x

\* C20: while enabled() is true a steering command in closed-loop-actuator
\* mode encodes angle_cmd limited to -max_steer_angle_..max_steer_angle_; an
\* articulation command with its enable flag set, in angle mode, encodes
\* angle_cmd limited to -max_articulation_angle_..max_articulation_angle_; a
\* dump-bed command with its enable flag set, in angle mode, encodes
\* angle_cmd limited to 0..max_dump_angle_.
C20_AngleClamped ==
  /\ (op = "recvSteeringCmd" /\ IsEnabled /\ Cmd.control_type = CLOSED_LOOP_ACTUATOR) =>
       CanFrames(out)[1].sig.AKit_SteeringWhlAngleReq =
         Limited(Cmd.angle_cmd, -max_steer_angle_, max_steer_angle_)
  /\ (op = "recvArticulationCmd" /\ IsEnabled /\ Cmd.enable
        /\ Cmd.control_type = ARTICULATION_ANGLE) =>
       CanFrames(out)[1].sig.AKit_ArticulationAngleReq =
         Limited(Cmd.angle_cmd, -max_articulation_angle_, max_articulation_angle_)
  /\ (op = "recvDumpBedCmd" /\ IsEnabled /\ Cmd.enable
        /\ Cmd.control_type = DUMP_BED_ANGLE) =>
       CanFrames(out)[1].sig.AKit_DumpBedAnglReq =
         Limited(Cmd.angle_cmd, 0, max_dump_angle_)

\* the enabled system has encoded a closed-loop-actuator steering command of
\* max_steer_angle_ + 5 as max_steer_angle_
C20_Witness ==
  /\ op = "recvSteeringCmd"
  /\ IsEnabled
  /\ Cmd.control_type = CLOSED_LOOP_ACTUATOR
  /\ Cmd.angle_cmd = max_steer_angle_ + 5
  /\ CanFrames(out)[1].sig.AKit_SteeringWhlAngleReq = max_steer_angle_

(***************************************************************************)
(* Properties of the steering velocity limit.                              *)
(***************************************************************************)
\* C21: in every steering frame encoded while enabled() is true, for every
\* commanded angle_velocity (0 included), the velocity-limit signal is
\* round(|angle_velocity| / 2) limited to 1..254, so it is never 0.
C21_VelocityLimitNeverZero ==
  (op = "recvSteeringCmd" /\ IsEnabled) =>
    /\ CanFrames(out)[1].sig.AKit_SteeringWhlAngleVelocityLim =
         Limited((Abs(Cmd.angle_velocity) + 1) \div 2, 1, 254)
    /\ CanFrames(out)[1].sig.AKit_SteeringWhlAngleVelocityLim # 0

(***************************************************************************)
(* Properties of the accelerator pedal channel faults.                     *)
(***************************************************************************)
AccelReports(o) == {r \in Reports(o) : r.topic = "accelerator_pedal_report"}

\* an accelerator pedal report with exactly one channel fault and the pedal
\* system fault clear
OneChannel(r) == (r.fault_ch1 # r.fault_ch2) /\ ~r.fault

\* the accelerator fault flag after an accelerator pedal report is the AND of
\* the two channel faults
AccelFaultIsAnd(o, f) ==
  \A r \in AccelReports(o) : f[FAULT_ACCEL] = (r.fault_ch1 /\ r.fault_ch2)

\* C22 as stated: after an accelerator pedal report faults_[FAULT_ACCEL] is
\* true exactly when both channel faults are set, and a report with exactly
\* one channel fault and the pedal system fault clear leaves an enabled system
\* enabled.
C22_OneChannelKeepsEnabled ==
  [][/\ AccelFaultIsAnd(out', faults_')
     /\ \A r \in AccelReports(out') :
          (IsEnabled /\ OneChannel(r)) => enables_'[EN_DBW]]_vars

\* C22: after an accelerator pedal report faults_[FAULT_ACCEL] is true
\* exactly when both channel faults are set, and a report with exactly one
\* channel fault, the pedal system fault clear and no driver activity leaves
\* an enabled system enabled.
C22_OneChannelNoActivityKeepsEnabled ==
  [][/\ AccelFaultIsAnd(out', faults_')
     /\ \A r \in AccelReports(out') :
          (IsEnabled /\ OneChannel(r) /\ ~r.driver_activity) => enables_'[EN_DBW]]_vars

\* an accelerator pedal report with one channel fault and no driver activity
\* has been processed and the system is still enabled
C22_Witness ==
  /\ op = "recvCAN"
  /\ IsEnabled
  /\ ~faults_[FAULT_ACCEL]
  /\ \E r \in AccelReports(out) : OneChannel(r) /\ ~r.driver_activity

(***************************************************************************)
(* SpecJoint: the joint state record under stamped wheel speed and         *)
(* steering report frames.  The stamps do not run backwards.               *)
(***************************************************************************)
\* tenths of a second after the whole second
Tenths == {0, 1, 4, 5, 6, 9}

Stamps == [sec : {0, 1}, nanosec : Tenths]

\* <<FL, FR, RL, RR>> in hundredths of a radian per second
WheelSpeeds == {<<0, 0, 0, 0>>, <<100, 100, 100, 100>>, <<100, -100, 2000, 0>>}

Stamped(msg, stamp) == [msg EXCEPT !.stamp = stamp]

WheelSpeedFrames ==
  {Stamped(Frame(ID_REPORT_WHEEL_SPEED, GoodShape,
                 [DBW_WhlSpd_FL |-> w[1], DBW_WhlSpd_FR |-> w[2],
                  DBW_WhlSpd_RL |-> w[3], DBW_WhlSpd_RR |-> w[4]]), stamp) :
     w \in WheelSpeeds, stamp \in Stamps}

SteeringAngles == {0, 1, 2}

SteeringAngleFrames ==
  {Stamped(Frame(ID_STEERING_REPORT, GoodShape,
                 [DBW_SteeringFault |-> 0, DBW_SteeringDriverActivity |-> 0,
                  DBW_SteeringWhlAngleAct |-> a]), stamp) :
     a \in SteeringAngles, stamp \in Stamps}

RecvStamped(frames) ==
  /\ nstamped < MaxStamped
  /\ nstamped' = nstamped + 1
  /\ UNCHANGED <<ncmd, vin_rx>>
  /\ \E msg \in frames :
       /\ Seconds(msg.stamp) >= Seconds(joint_state_.stamp)
       /\ Return("recvCAN", recvCAN(Node, msg))

RecvWheelSpeed == RecvStamped(WheelSpeedFrames)

RecvSteeringAngle == RecvStamped(SteeringAngleFrames)

NextJoint == RecvWheelSpeed \/ RecvSteeringAngle

SpecJoint == Init /\ [][NextJoint]_vars

\* the wheel speed reports published in o
WheelSpeedReports(o) ==
  {o[i] : i \in {j \in 1..Len(o) : o[j].k = "wheel_speed_report"}}

Wheels == JOINT_FL..JOINT_RR

\* C23: a wheel speed report always stores the four wheel velocities; with
\* elapsed the difference between the report's stamp and the stamp stored
\* before, each wheel position advances by velocity * elapsed (mod 2 pi) if
\* elapsed is below 0.5 s and is unchanged otherwise, whatever the sub-second
\* part of the stored stamp.
C23_StalenessGate ==
  [][\A w \in WheelSpeedReports(out') :
       LET elapsed == Seconds(w.stamp) - Seconds(joint_state_.stamp)
       IN  /\ joint_state_'.velocity[JOINT_FL] = w.data.front_left
           /\ joint_state_'.velocity[JOINT_FR] = w.data.front_right
           /\ joint_state_'.velocity[JOINT_RL] = w.data.rear_left
           /\ joint_state_'.velocity[JOINT_RR] = w.data.rear_right
           /\ \A i \in Wheels :
                joint_state_'.position[i] =
                  IF elapsed < HALF_SECOND
                    THEN Fmod(joint_state_.position[i]
                                + elapsed * joint_state_'.velocity[i], TWO_PI)
                    ELSE joint_state_.position[i]]_vars

(***************************************************************************)
(* SpecArb: setFault, setOverride and both forms of the watchdog called    *)
(* directly, with identifiers in range and out of range, and the enable    *)
(* and disable requests.                                                   *)
(***************************************************************************)
\* the identifiers passed to setFault: two serious faults and every ListFaults
\* value from NUM_SERIOUS_FAULTS on, NUM_FAULTS included
FaultArgs ==
  [id : {FAULT_BRAKE, FAULT_WATCH} \cup (NUM_SERIOUS_FAULTS..NUM_FAULTS),
   value : BOOLEAN]

\* the identifiers passed to setOverride: two overrides, NUM_OVERRIDES and the
\* value after it
OverrideArgs ==
  [id : {OVR_BRAKE, OVR_GEAR} \cup (NUM_OVERRIDES..(NUM_OVERRIDES + 1)),
   value : BOOLEAN]

\* a call returns when it leaves at most MaxAsserted conditions asserted
Arbitrated(name, n) == Asserted(n) <= MaxAsserted /\ Return(name, n)

SetFault ==
  \E args \in FaultArgs :
    /\ Arbitrated("setFault", setFault(Invoked(args), args.id, args.value))
    /\ UNCHANGED <<ncmd, vin_rx, nstamped>>

SetOverride ==
  \E args \in OverrideArgs :
    /\ Arbitrated("setOverride", setOverride(Invoked(args), args.id, args.value))
    /\ UNCHANGED <<ncmd, vin_rx, nstamped>>

\* the two-argument faultWatchdog
WatchdogCalls2 == [fault : BOOLEAN, src : {0, 1, 2}]

FaultWatchdog2 ==
  \E args \in WatchdogCalls2 :
    /\ Return("faultWatchdog2", faultWatchdog(Invoked(args), args.fault, args.src))
    /\ UNCHANGED <<ncmd, vin_rx, nstamped>>

NextArb ==
  RecvEnable \/ RecvDisable \/ SetFault \/ SetOverride \/ FaultWatchdog \/ FaultWatchdog2

SpecArb == Init /\ [][NextArb]_vars

\* the arguments of the call that ran last
Args == out[1].args

\* C24: setFault with an identifier that is not a serious fault (the
\* watchdog braking and warning flags included) and setOverride with an
\* identifier that is not an override change nothing: the enable flags, every
\* fault flag, every override flag and the last published value are as
\* before, and nothing is published or logged.
C24_OutOfRangeIgnored ==
  [][(\/ op' = "setFault" /\ out'[1].args.id >= NUM_SERIOUS_FAULTS
      \/ op' = "setOverride" /\ out'[1].args.id >= NUM_OVERRIDES) =>
       /\ enables_' = enables_
       /\ faults_' = faults_
       /\ overrides_' = overrides_
       /\ last_pub' = last_pub
       /\ Len(out') = 1]_vars

\* setFault(FAULT_WATCH_BRAKES, true) has returned on the enabled system,
\* which is still enabled and has the flag clear
C24_Witness ==
  /\ op = "setFault"
  /\ Args = [id |-> FAULT_WATCH_BRAKES, value |-> TRUE]
  /\ IsEnabled
  /\ ~faults_[FAULT_WATCH_BRAKES]

(***************************************************************************)
(* Properties of the constructor.                                          *)
(***************************************************************************)
\* C25: after construction every fault flag and every override flag is
\* false, enabled() is false, and exactly one dbw_enabled message was
\* published during construction, with the value false.
C25_Startup ==
  op = "RaptorDbwCAN" =>
    /\ \A i \in 0..(NUM_FAULTS - 1) : ~faults_[i]
    /\ \A i \in 0..(NUM_OVERRIDES - 1) : ~overrides_[i]
    /\ ~IsEnabled
    /\ Cardinality(Published(out)) = 1
    /\ \A i \in Published(out) : out[i].data = FALSE

\* the node has been constructed and nothing else has run: the one message
\* of the constructor is the last published value
C25_Witness ==
  /\ op = "RaptorDbwCAN"
  /\ Len(out) = 1
  /\ out[1].k = "dbw_enabled"
  /\ last_pub = FALSE
  /\ enables_[EN_DBW_PREV] = FALSE

(***************************************************************************)
(* Properties of the order of arbitration and publication.                 *)
(***************************************************************************)
\* positions in o of the setFault / setOverride calls and of the dbw_enabled
\* messages they publish
ArbitrationAt(o) ==
  {i \in 1..Len(o) : o[i].k \in {"setFault", "setOverride", "dbw_enabled"}}

\* positions in o of the published reports
ReportAt(o) == {i \in 1..Len(o) : o[i].k = "report"}

\* C26: while one report frame is handled, every setFault / setOverride call
\* made for the frame and every dbw_enabled message it causes comes before
\* the frame's report is published; a handled frame that is arbitrated
\* publishes exactly one report, and no other handler publishes a report.
C26_ArbitrateBeforePublish ==
  /\ \A i \in ArbitrationAt(out) : \A j \in ReportAt(out) : i < j
  /\ op = "recvCAN" /\ ArbitrationAt(out) # {} => Cardinality(ReportAt(out)) = 1
  /\ op # "recvCAN" => ReportAt(out) = {}

\* a report frame has disabled the enabled system: the arbitration call and
\* the dbw_enabled message are in out, followed by the report
C26_Witness ==
  /\ op = "recvCAN"
  /\ \E i, j, r \in 1..Len(out) :
       /\ out[i].k = "dbw_enabled" /\ out[i].data = FALSE
       /\ out[j].k = "setFault" /\ out[j].en_before /\ ~out[j].en_after
       /\ out[r].k = "report" /\ out[r].topic = "brake_report"
       /\ i < r /\ j < r

(***************************************************************************)
(* Properties of the watchdog flags.                                       *)
(***************************************************************************)
NewFaultWarning == "Watchdog - new fault warning."

\* C27: after faultWatchdog(fault, src, ...) returns, the warning flag is
\* false if fault is false, true if fault is true and src is non-zero, and as
\* before if fault is true and src is 0; "new fault warning" is logged only
\* by a call that changes the flag from false to true.
C27_WarningBit ==
  [][op' = "faultWatchdog" =>
       /\ faults_'[FAULT_WATCH_WARN] =
            (IF ~out'[1].args.fault THEN FALSE
             ELSE IF out'[1].args.src # 0 THEN TRUE
             ELSE faults_[FAULT_WATCH_WARN])
       /\ NewFaultWarning \in Logs(out') =>
            (~faults_[FAULT_WATCH_WARN] /\ faults_'[FAULT_WATCH_WARN])]_vars

\* a call with fault = true and src = 0 has returned with the warning flag
\* still set and without the log
C27_Witness ==
  /\ op = "faultWatchdog"
  /\ Args.fault
  /\ Args.src = 0
  /\ faults_[FAULT_WATCH_WARN]
  /\ NewFaultWarning \notin Logs(out)

BrakingLogs == {NewBrakingFault, "Watchdog - braking fault is cleared."}

\* C28: the two-argument faultWatchdog(fault, src) leaves the stored braking
\* flag as it was, for every fault and src, and logs neither "new braking
\* fault" nor "braking fault is cleared".
C28_TwoArgumentKeepsBraking ==
  [][op' = "faultWatchdog2" =>
       /\ faults_'[FAULT_WATCH_BRAKES] = faults_[FAULT_WATCH_BRAKES]
       /\ Logs(out') \cap BrakingLogs = {}]_vars

\* the two-argument form has returned with the braking flag set
C28_Witness ==
  /\ op = "faultWatchdog2"
  /\ faults_[FAULT_WATCH_BRAKES]
  /\ Logs(out) \cap BrakingLogs = {}

(***************************************************************************)
(* Properties of the control modes and the rolling counters.               *)
(***************************************************************************)
\* the control types each encoder recognizes
Recognized ==
  [recvBrakeCmd |-> {OPEN_LOOP, CLOSED_LOOP_ACTUATOR, CLOSED_LOOP_VEHICLE},
   recvAcceleratorPedalCmd |-> {OPEN_LOOP, CLOSED_LOOP_ACTUATOR, CLOSED_LOOP_VEHICLE},
   recvSteeringCmd |-> {OPEN_LOOP, CLOSED_LOOP_ACTUATOR, CLOSED_LOOP_VEHICLE},
   recvArticulationCmd |-> {ARTICULATION_ANGLE},
   recvDumpBedCmd |-> {DUMP_BED_MODE, DUMP_BED_ANGLE},
   recvEngineCmd |-> {ENGINE_KEY_SWITCH}]

\* the request-type signal of each encoder's frame
RequestType ==
  [recvBrakeCmd |-> "AKit_BrakeCtrlReqType",
   recvAcceleratorPedalCmd |-> "AKit_AccelReqType",
   recvSteeringCmd |-> "AKit_SteeringReqType",
   recvArticulationCmd |-> "AKit_ArticulationReqType",
   recvDumpBedCmd |-> "AKit_DumpBedReqType",
   recvEngineCmd |-> "AKit_EngineReqType"]

\* the set-point signals a control type selects
ModeSetPoints ==
  [recvBrakeCmd |->
     {"AKit_BrakePedalReq", "AKit_BrakePcntTorqueReq", "AKit_SpeedModeDecelLim",
      "AKit_SpeedModeNegJerkLim"},
   recvAcceleratorPedalCmd |->
     {"AKit_AccelPdlReq", "AKit_AccelPcntTorqueReq", "AKit_SpeedReq",
      "AKit_SpeedModeRoadSlope", "AKit_SpeedModeAccelLim", "AKit_SpeedModePosJerkLim"},
   recvSteeringCmd |->
     {"AKit_SteeringWhlAngleReq", "AKit_SteeringWhlPcntTrqReq",
      "AKit_SteeringVehCurvatureReq"},
   recvArticulationCmd |-> {"AKit_ArticulationAngleReq"},
   recvDumpBedCmd |->
     {"AKit_DumpBedModeReq", "AKit_DumpBedLeverPercentReq", "AKit_DumpBedAnglReq"},
   recvEngineCmd |-> {"AKit_EngineModeReq"}]

\* C29: the brake, accelerator pedal, steering, articulation, dump-bed and
\* engine encoders, given a command whose control_type they do not
\* recognize, still emit one frame, in which the request-type signal is 0
\* and every set-point signal a control type selects is 0.
C29_UnrecognizedModeIsNone ==
  (op \in DOMAIN Recognized /\ Cmd.control_type \notin Recognized[op]) =>
    /\ Len(CanFrames(out)) = 1
    /\ CanFrames(out)[1].sig[RequestType[op]] = 0
    /\ \A x \in ModeSetPoints[op] : CanFrames(out)[1].sig[x] = 0

\* the enabled system has encoded an enabling brake command with set-points
\* and a control type outside the recognized ones
C29_Witness ==
  /\ op = "recvBrakeCmd"
  /\ IsEnabled
  /\ Cmd.enable
  /\ Cmd.control_type = ACTUATOR_NONE
  /\ Cmd.pedal_cmd # 0
  /\ CanFrames(out)[1].sig.AKit_BrakeCtrlEnblReq = 1
  /\ CanFrames(out)[1].sig.AKit_BrakePedalReq = 0

\* C30: every command encoder emits exactly one frame per command, and the
\* frame's rolling counter is the command's rolling counter, whether
\* enabled() is true or false and whatever the command's enable flag is.
C30_CounterEchoed ==
  op \in CmdOps =>
    /\ Len(CanFrames(out)) = 1
    /\ Len(out) = 2
    /\ CanFrames(out)[1].sig[CounterSignal[CanFrames(out)[1].msg]] = Cmd.rolling_counter

\* the system that is not enabled has encoded a command with the enable flag
\* clear and the rolling counter 255, and the frame carries 255
C30_Witness ==
  /\ op = "recvGearCmd"
  /\ ~IsEnabled
  /\ ~Cmd.enable
  /\ Cmd.rolling_counter = 255
  /\ CanFrames(out)[1].sig.AKit_PrndRollingCntr = 255

(***************************************************************************)
(* SpecBrake: the brake encoder under every sequence of at most            *)
(* MaxBrakeCmds brake commands, with the enable and disable requests.      *)
(***************************************************************************)
BrakeCmd ==
  /\ ncmd < MaxBrakeCmds
  /\ ncmd' = ncmd + 1
  /\ UNCHANGED <<vin_rx, nstamped>>
  /\ RecvBrakeCmd(BrakeCmds)

NextBrake == RecvEnable \/ RecvDisable \/ BrakeCmd

SpecBrake == Init /\ [][NextBrake]_vars

\* the set-point signals of the brake frame each control type selects
BrakeGroup ==
  [c \in ActuatorModes |->
     CASE c = OPEN_LOOP -> {"AKit_BrakePedalReq"}
       [] c = CLOSED_LOOP_ACTUATOR -> {"AKit_BrakePcntTorqueReq"}
       [] c = CLOSED_LOOP_VEHICLE -> {"AKit_SpeedModeDecelLim", "AKit_SpeedModeNegJerkLim"}
       [] OTHER -> {}]

BrakeSetPoints == UNION {BrakeGroup[c] : c \in ActuatorModes}

\* C31: in every brake frame encoded while enabled() is true, every set-point
\* signal outside the group the command's control type selects is zero,
\* whatever the command holds in the other fields and whatever brake command
\* was encoded before.
C31_BrakeShapesExclusive ==
  (op = "recvBrakeCmd" /\ IsEnabled) =>
    \A x \in BrakeSetPoints \ BrakeGroup[Cmd.control_type] :
      CanFrames(out)[1].sig[x] = 0

\* the enabled system has encoded its second brake command, a closed-loop
\* actuator command that holds 5 in every set-point field, and the frame
\* carries the torque request and no pedal request
C31_Witness ==
  /\ op = "recvBrakeCmd"
  /\ IsEnabled
  /\ ncmd = 2
  /\ Cmd.control_type = CLOSED_LOOP_ACTUATOR
  /\ Cmd.pedal_cmd = 5
  /\ Cmd.decel_limit = 5
  /\ CanFrames(out)[1].sig.AKit_BrakePcntTorqueReq = 5
  /\ CanFrames(out)[1].sig.AKit_BrakePedalReq = 0
  /\ CanFrames(out)[1].sig.AKit_SpeedModeDecelLim = 0

(***************************************************************************)
(* Properties of the disable request.                                      *)
(***************************************************************************)
\* C32: when disableSystem() returns, enabled() is false and enables_[EN_DBW]
\* is false; the call publishes one dbw_enabled message, with value false,
\* if enabled() was true on entry and none otherwise; faults_ and overrides_
\* are what they were on entry.
C32_DisableRequest ==
  [][op' = "recvDisable" =>
       /\ ~IsEnabled'
       /\ ~enables_'[EN_DBW]
       /\ Events(out') = IF IsEnabled THEN <<FALSE>> ELSE <<>>
       /\ faults_' = faults_
       /\ overrides_' = overrides_]_vars

\* a disable request has switched off a system that was enabled with an
\* override asserted: false was published and the override is still asserted
C32_Witness ==
  /\ op = "recvDisable"
  /\ Events(out) = <<FALSE>>
  /\ ~IsEnabled
  /\ override(Node)

(***************************************************************************)
(* SpecVinCycle: the VIN reassembly under every sequence of at most        *)
(* MaxCycleFrames well-formed frames of the three phases, each with two    *)
(* sets of digits.                                                         *)
(***************************************************************************)
CycleFrames ==
  {Frame(ID_VIN, GoodShape, VinSignals(mux, base)) :
     mux \in {VIN_MUX_VIN0, VIN_MUX_VIN1, VIN_MUX_VIN2}, base \in {48, 64}}

RecvVinCycle ==
  /\ Len(vin_rx) < MaxCycleFrames
  /\ \E msg \in CycleFrames : Fed(recvCAN(Node, msg), msg)

NextVinCycle == RecvVinCycle

SpecVinCycle == Init /\ [][NextVinCycle]_vars

\* the number of characters a well-formed frame of each phase carries
Run(msg) == Len(VinDigits[msg.sig.DBW_VinMultiplexor])

\* the first six frames were phase 0, 1, 2, 0, 1, 2
TwoCycles ==
  /\ Phase(1, VIN_MUX_VIN0) /\ Phase(2, VIN_MUX_VIN1) /\ Phase(3, VIN_MUX_VIN2)
  /\ Phase(4, VIN_MUX_VIN0) /\ Phase(5, VIN_MUX_VIN1) /\ Phase(6, VIN_MUX_VIN2)

\* C33: the VIN buffer is never reset.  Every VIN frame leaves what the
\* buffer held in place and appends its run to it (7 characters in phase 0
\* and phase 1, 3 in phase 2), so its length never decreases; whatever is
\* published while a frame is handled is the whole buffer; the phase-2 frame
\* of a second complete cycle publishes 34 characters.
C33_VinNeverReset ==
  [][Len(vin_rx') > Len(vin_rx) =>
       LET rx == vin_rx'[Len(vin_rx')]
       IN  /\ Len(vin_') >= Len(vin_)
           /\ SubSeq(vin_', 1, Len(vin_)) = vin_
           /\ Len(vin_') = Len(vin_) + Run(rx.msg)
           /\ Run(rx.msg) = IF rx.msg.sig.DBW_VinMultiplexor = VIN_MUX_VIN2 THEN 3 ELSE 7
           /\ rx.pub = IF rx.msg.sig.DBW_VinMultiplexor = VIN_MUX_VIN2
                         THEN <<vin_'>> ELSE <<>>
           /\ (TwoCycles => Len(vin_rx[6].pub[1]) = 34)']_vars

\* two complete cycles have been received, the second with other digits than
\* the first: 17 characters were published after the first and 34, the whole
\* buffer, after the second
C33_Witness ==
  /\ Len(vin_rx) = 6
  /\ TwoCycles
  /\ vin_rx[1].msg.sig.DBW_VinDigit_01 # vin_rx[4].msg.sig.DBW_VinDigit_01
  /\ Len(vin_rx[3].pub[1]) = 17
  /\ vin_rx[6].pub = <<vin_>>
  /\ Len(vin_) = 34
  /\ SubSeq(vin_, 1, 17) = vin_rx[3].pub[1]

(***************************************************************************)
(* SpecAll: every kind of handler.  The enable and disable requests, the   *)
(* well-formed brake report frames, the timer, the commands of every       *)
(* encoder that have every field set (at most MaxCmds per run), and the    *)
(* frames of the report decoders that take no part in the arbitration.     *)
(***************************************************************************)
\* a command in which every flag is set, every number is non-zero and the
\* control type, if it has one, is the first the encoder tests for after
\* open loop / none
Loud(cmd) ==
  \A x \in DOMAIN cmd :
    IF x \in BoolFields THEN cmd[x]
    ELSE IF x = "control_type" THEN cmd[x] = 1
    ELSE cmd[x] > 0

LoudOf(cmds) == {msg \in cmds : Loud(msg)}

LoudCmd ==
  /\ ncmd < MaxCmds
  /\ ncmd' = ncmd + 1
  /\ UNCHANGED <<vin_rx, nstamped>>
  /\ \/ RecvBrakeCmd(LoudOf(BrakeCmds))
     \/ RecvAcceleratorPedalCmd(LoudOf(AcceleratorPedalCmds))
     \/ RecvSteeringCmd(LoudOf(SteeringCmds))
     \/ RecvGearCmd(LoudOf(GearCmds))
     \/ RecvGlobalEnableCmd(LoudOf(GlobalEnableCmds))
     \/ RecvMiscCmd(LoudOf(MiscCmds))
     \/ RecvActionCmd(LoudOf(ActionCmds))
     \/ RecvArticulationCmd(LoudOf(ArticulationCmds))
     \/ RecvDumpBedCmd(LoudOf(DumpBedCmds))
     \/ RecvEngineCmd(LoudOf(EngineCmds))

\* the well-formed brake report frames
BrakeFrames ==
  {msg \in Frames[ID_BRAKE_REPORT] : msg.dlc = GoodShape.dlc /\ ~msg.is_rtr /\ ~msg.is_error}

RecvBrake ==
  /\ \E msg \in BrakeFrames : Return("recvCAN", recvCAN(Node, msg))
  /\ UNCHANGED <<ncmd, vin_rx, nstamped>>

\* the frames of the other decoders: a full-length frame of each id that
\* only publishes a report, a wheel speed frame of the vehicle at rest, and
\* two VIN frames (phase 2, and a multiplexor that is no phase)
OtherFrames ==
  {Frame(id, GoodShape, <<>>) : id \in OtherReportIds}
  \cup {Frame(ID_REPORT_WHEEL_SPEED, GoodShape,
              [DBW_WhlSpd_FL |-> 0, DBW_WhlSpd_FR |-> 0,
               DBW_WhlSpd_RL |-> 0, DBW_WhlSpd_RR |-> 0])}
  \cup {Frame(ID_VIN, GoodShape, VinSignals(mux, 48)) : mux \in {VIN_MUX_VIN2, 3}}

\* a VIN frame is delivered while the VIN buffer is empty
RecvOther ==
  /\ \E msg \in OtherFrames :
       /\ msg.id = ID_VIN => vin_ = <<>>
       /\ Return("recvCAN", recvCAN(Node, msg))
  /\ UNCHANGED <<ncmd, vin_rx, nstamped>>

NextAll ==
  RecvEnable \/ RecvDisable \/ RecvBrake \/ TimerCallback \/ LoudCmd \/ RecvOther

SpecAll == Init /\ [][NextAll]_vars

\* the enabled flag, the fault set and the override set
Arbitration(n) == <<n.enables_[EN_DBW], n.faults_, n.overrides_>>

\* the topics of the reports of the brake, accelerator pedal, steering, gear,
\* action, articulation, dump-bed and engine decoders
ArbitrationTopics ==
  {"brake_report", "accelerator_pedal_report", "steering_report", "gear_report",
   "action_report", "articulation_report", "dump_bed_report", "engine_report"}

\* C34: the enabled flag, the fault set and the override set change only
\* while an enable request, a disable request or a brake, accelerator pedal,
\* steering, gear, action, articulation, dump-bed or engine report frame is
\* handled; every command encoder, the timer and every other report decoder
\* leave all three as they were.
C34_ArbitrationOnly ==
  [][/\ Arbitration(Node)' # Arbitration(Node) =>
          \/ op' \in {"recvEnable", "recvDisable"}
          \/ /\ op' = "recvCAN"
             /\ \E r \in Reports(out') : r.topic \in ArbitrationTopics
     /\ op' \in CmdOps \cup {"timerCallback"} => Arbitration(Node)' = Arbitration(Node)
     /\ (op' = "recvCAN" /\ Reports(out') = {}) => Arbitration(Node)' = Arbitration(Node)]_vars

\* the system was enabled while the brake override was asserted, a command
\* was encoded, and the driver input report has just been decoded and
\* published
C34_Witness ==
  /\ op = "recvCAN"
  /\ out = <<[k |-> "publish", id |-> "ID_REPORT_DRIVER_INPUT"]>>
  /\ IsEnabled
  /\ overrides_[OVR_BRAKE]
  /\ ncmd = 1


C36_NoMissedTransition ==
  [][/\ enables_[EN_DBW_PREV] = IsEnabled
     /\ enables_'[EN_DBW_PREV] = IsEnabled'
     /\ last_pub' = IsEnabled'
     /\ IsEnabled' # IsEnabled => Events(out') = <<IsEnabled'>>]_vars

\* a report frame disabled the system, published false and left the shadow
\* false
C36_Witness ==
  /\ op = "recvCAN"
  /\ Events(out) = <<FALSE>>
  /\ ~IsEnabled
  /\ ~enables_[EN_DBW_PREV]
  /\ last_pub = FALSE


(***************************************************************************)
(* C37.  An enable request made while a driver override is asserted.       *)
(***************************************************************************)
\* an enable request is made in the disabled state with no serious fault and
\* at least one override asserted
OverriddenRequest ==
  op' = "recvEnable" /\ ~enables_[EN_DBW] /\ ~fault(Node) /\ override(Node)

\* a report frame is decoded, with the enable flag set, that clears the last
\* asserted override and leaves no serious fault
LastOverrideCleared ==
  /\ op' = "recvCAN"
  /\ enables_[EN_DBW]
  /\ override(Node)
  /\ ~(\E i \in OverrideIds : overrides_'[i])
  /\ ~(\E i \in SeriousFaultIds : faults_'[i])

\* the timer ticks with the enable flag set and an override asserted
OverriddenTick ==
  op' = "timerCallback" /\ enables_[EN_DBW] /\ override(Node)

\* the overridden subsystems among those the timer serves
TimerSubsystems == {i \in DOMAIN TimerMessages : overrides_[i]}

NewNonBrakingFault == "Watchdog - new non-braking fault."

\* the brake reports published by the last callback that carry a fault
FaultyBrakeReports ==
  {r \in Reports(out) : r.topic = "brake_report" /\ r.fault}

\* C38: in every state reached through the handlers the watchdog braking bit
\* faults_[FAULT_WATCH_BRAKES] is false, since every call site of
\* faultWatchdog passes the stored bit back in; no handler logs "new braking
\* fault" or "braking fault is cleared"; and a brake report with a brake
\* fault sets the watchdog fault and the warning bit and is logged as a new
\* non-braking fault.
C38_BrakingBitNeverSet ==
  /\ ~faults_[FAULT_WATCH_BRAKES]
  /\ Logs(out) \cap BrakingLogs = {}
  /\ (op = "recvCAN" /\ FaultyBrakeReports # {}) =>
       /\ faults_[FAULT_BRAKE]
       /\ faults_[FAULT_WATCH]
       /\ faults_[FAULT_WATCH_WARN]
       /\ NewNonBrakingFault \in Logs(out)

\* a brake report with a brake fault has just been decoded in a state where
\* the warning bit was already set: no new warning, a non-braking fault
C38_Witness ==
  /\ op = "recvCAN"
  /\ FaultyBrakeReports # {}
  /\ faults_[FAULT_WATCH]
  /\ ~faults_[FAULT_WATCH_BRAKES]
  /\ NewNonBrakingFault \in Logs(out)
  /\ NewFaultWarning \notin Logs(out)


(***************************************************************************)
(* C39.  The watchdog fault follows the last report.                       *)
(***************************************************************************)
\* the reports whose decoder calls faultWatchdog, each with the fault flag
\* of its own subsystem
WatchdogTopics ==
  {"brake_report", "accelerator_pedal_report", "steering_report"}

OwnFault(topic) ==
  CASE topic = "brake_report" -> FAULT_BRAKE
    [] topic = "accelerator_pedal_report" -> FAULT_ACCEL
    [] topic = "steering_report" -> FAULT_STEER

\* the brake, accelerator pedal or steering report the last callback
\* published
WatchdogReports == {r \in Reports(out) : r.topic \in WatchdogTopics}

\* C39: after a full-length brake, accelerator pedal or steering report is
\* decoded, faults_[FAULT_WATCH] equals the system-fault signal of that frame
\* (the fault field of the report), whatever it was before, and the fault
\* flags of the other two subsystems are as they were; so a fault-free report
\* of one subsystem clears the watchdog fault raised by another, whose own
\* fault flag stays true.
C39_LastWriterWins ==
  [][op' = "recvCAN" =>
       \A r \in WatchdogReports' :
         /\ faults_'[FAULT_WATCH] = r.fault
         /\ \A topic \in WatchdogTopics \ {r.topic} :
              faults_'[OwnFault(topic)] = faults_[OwnFault(topic)]]_vars

\* a fault-free steering report has just cleared the watchdog fault while the
\* brake fault that raised it is still set
C39_Witness ==
  /\ op = "recvCAN"
  /\ \E r \in WatchdogReports : r.topic = "steering_report" /\ ~r.fault
  /\ faults_[FAULT_BRAKE]
  /\ ~faults_[FAULT_WATCH]
  /\ ~faults_[FAULT_STEER]


(***************************************************************************)
(* C40.  The watchdog warning bit.                                         *)
(***************************************************************************)
\* the node with the warning bit as its only fault flag, enabled or not
WarningAlone(en) ==
  [Node EXCEPT !.faults_ = [i \in DOMAIN @ |-> i = FAULT_WATCH_WARN],
               !.enables_ = [i \in DOMAIN @ |-> en],
               !.out = <<>>]

\* C40: whenever a handler has returned, the watchdog warning bit is set
\* only if the watchdog fault flag is set; and the warning bit is not a
\* serious fault: by itself it does not make fault() true, does not block an
\* enable request, and setFault does not store it or disable the system for
\* it.
C40_WarningImpliesWatchdog ==
  /\ faults_[FAULT_WATCH_WARN] => faults_[FAULT_WATCH]
  /\ FAULT_WATCH_WARN \notin SeriousFaultIds
  /\ ~fault(WarningAlone(FALSE))
  /\ enabled(enableSystem(WarningAlone(FALSE)))
  /\ setFault(WarningAlone(TRUE), FAULT_WATCH_WARN, TRUE) = WarningAlone(TRUE)
  /\ enabled(setFault(Node, FAULT_WATCH_WARN, TRUE)) = IsEnabled

\* a steering report with a fault (a watchdog call that names no source) has
\* just been decoded and the warning bit raised by an earlier report is still
\* set, next to the watchdog fault
C40_Witness ==
  /\ op = "recvCAN"
  /\ \E r \in Reports(out) : r.topic = "steering_report" /\ r.fault
  /\ faults_[FAULT_WATCH_WARN]
  /\ faults_[FAULT_WATCH]

====
